---- MODULE Spec2Model ----
(***************************************************************************)
(* Model of the Control System Response Analyser                           *)
(* (src/python/control_system_response.py and its Flet port).              *)
(*                                                                         *)
(* The program computes with IEEE doubles.  The model computes with exact  *)
(* numbers instead:                                                        *)
(*   - a coefficient, a pole part or a horizon is a decimal rational       *)
(*     <<n, d, e>> = (n/d) * 10^e, kept in a canonical form, so that       *)
(*     1e-12, 1e-6 and 1e6 are exact;                                      *)
(*   - a natural frequency or a damping ratio is a signed square root      *)
(*     <<s, q>> = s * sqrt(q) of such a rational.                          *)
(* A value whose exact form needs a mantissa above MantMax is NaR ("not    *)
(* representable"), and so is a real pole that is irrational; parameter    *)
(* edits that would produce one are outside the bounded input domain.      *)
(* Shared values are passed as operator parameters.                        *)
(***************************************************************************)
EXTENDS Integers, Sequences, FiniteSets, TLC

(***************************************************************************)
(* Bounds of the model.                                                    *)
(***************************************************************************)
\* largest mantissa (numerator or denominator) of a representable rational
MantMax == 20000
\* number of parameter edits followed since the controls were last rebuilt
MaxEdits == 1
\* number of parameters of an engine run that differ from their defaults
MaxChanged == 3
\* rational roots p/2 with |p| <= 2*RootCandMax are tried on a cubic denominator
RootCandMax == 5
\* number of parameters of an exported run that differ from their defaults
MaxExportChanged == 2

(***************************************************************************)
(* Integer helpers (TLC integers are 32 bit).                              *)
(***************************************************************************)
Cap    == 4 * 10^8              \* products of two mantissas stay below it
SclMax == 10^9 \div MantMax     \* largest factor that aligns two summands

Abs(x) == IF x < 0 THEN -x ELSE x
Sgn(x) == IF x < 0 THEN -1 ELSE IF x > 0 THEN 1 ELSE 0
Min2(a, b) == IF a <= b THEN a ELSE b
Max2(a, b) == IF a >= b THEN a ELSE b

RECURSIVE Gcd(_, _)
Gcd(a, b) == IF b = 0 THEN a ELSE Gcd(b, a % b)

RECURSIVE ISqrtIn(_, _, _)
\* the largest k in lo..hi with k*k <= n  (lo*lo <= n assumed)
ISqrtIn(n, lo, hi) ==
    IF lo >= hi THEN lo
    ELSE IF ((lo + hi + 1) \div 2) * ((lo + hi + 1) \div 2) <= n
         THEN ISqrtIn(n, (lo + hi + 1) \div 2, hi)
         ELSE ISqrtIn(n, lo, ((lo + hi + 1) \div 2) - 1)
ISqrt(n) == ISqrtIn(n, 0, Min2(n, 46340))
IsSquareNat(n) == ISqrt(n) * ISqrt(n) = n

(***************************************************************************)
(* Decimal rationals  <<n, d, e>> = (n/d) * 10^e.                          *)
(* Canonical form: gcd(n, d) = 1, d >= 1 coprime to 10, 10 does not divide *)
(* n, and zero is <<0, 1, 0>>.  Equal numbers have equal canonical forms.  *)
(***************************************************************************)
NaR  == <<0, 0, 0>>
Zero == <<0, 1, 0>>
IsNaR(x) == x[2] = 0
\* the literal n * 10^e, for n # 0 not a multiple of 10
Dec(n, e) == <<n, 1, e>>

RECURSIVE Canon(_, _, _)
\* the canonical form of (n/d) * 10^e for an integer n and a natural d;
\* d = 0 stands for an operand that is NaR
Canon(n, d, e) ==
    IF d = 0 THEN NaR
    ELSE IF n = 0 THEN Zero
    ELSE IF Gcd(Abs(n), d) > 1
         THEN Canon(n \div Gcd(Abs(n), d), d \div Gcd(Abs(n), d), e)
    ELSE IF n % 10 = 0 THEN Canon(n \div 10, d, e + 1)
    ELSE IF Abs(n) > Cap \/ d > Cap THEN NaR
    ELSE IF d % 2 = 0 THEN Canon(n * 5, d \div 2, e - 1)
    ELSE IF d % 5 = 0 THEN Canon(n * 2, d \div 5, e - 1)
    ELSE IF Abs(n) > MantMax \/ d > MantMax THEN NaR
    ELSE <<n, d, e>>

Q(n) == Canon(n, 1, 0)               \* the integer n

QNeg(x) == <<-x[1], x[2], x[3]>>
QAbs(x) == <<Abs(x[1]), x[2], x[3]>>
QMul(x, y) == Canon(x[1] * y[1], x[2] * y[2], x[3] + y[3])
QDiv(x, y) == Canon(x[1] * y[2] * Sgn(y[1]), x[2] * Abs(y[1]), x[3] - y[3])

\* the factor that brings x to the exponent e over the common denominator
\* with y; 0 when it is too large or y is NaR
Shift(x, y, e) == IF x[3] - e > 4 THEN 0 ELSE (10^(x[3] - e)) * y[2]
AddScaled(x, y, e, sx, sy) ==
    IF sx = 0 \/ sy = 0 \/ sx > SclMax \/ sy > SclMax THEN NaR
    ELSE Canon(x[1] * sx + y[1] * sy, x[2] * y[2], e)
AddAt(x, y, e) == AddScaled(x, y, e, Shift(x, y, e), Shift(y, x, e))
QAdd(x, y) ==
    IF x = Zero THEN y
    ELSE IF y = Zero THEN x
    ELSE AddAt(x, y, Min2(x[3], y[3]))
QSub(x, y) == QAdd(x, QNeg(y))

\* A * 10^g < B for naturals A and B, without overflow
ScaledLess(A, B, g) ==
    IF g >= 0
    THEN g <= 9 /\ A <= (B - 1) \div (10^g)
    ELSE ~ (-g <= 9 /\ B <= A \div (10^(-g)))
\* x < y for positive x and y
MagLess(x, y) == ScaledLess(x[1] * y[2], y[1] * x[2], x[3] - y[3])
\* x < y (both representable), exactly
QLess(x, y) ==
    IF Sgn(x[1]) # Sgn(y[1]) THEN x[1] < y[1]
    ELSE IF x[1] > 0 THEN MagLess(x, y)
    ELSE IF x[1] < 0 THEN MagLess(QAbs(y), QAbs(x))
    ELSE FALSE
QLeq(x, y) == ~ QLess(y, x)
\* Python's max(x, y)
QMax(x, y) == IF QLess(x, y) THEN y ELSE x

\* a perfect square of a rational: even exponent, square numerator and denominator
QIsSquare(x) ==
    /\ x[1] >= 0
    /\ x[3] % 2 = 0
    /\ IsSquareNat(x[1])
    /\ IsSquareNat(x[2])
QSqrt(x) == <<ISqrt(x[1]), ISqrt(x[2]), x[3] \div 2>>

\* floor of a rational as an integer (10^9 in magnitude stands for "huge")
QFloorInt(x) ==
    IF x[3] >= 0
    THEN (IF x[3] > 4 THEN Sgn(x[1]) * 10^9 ELSE (x[1] * 10^(x[3])) \div x[2])
    ELSE (IF x[3] < -4 THEN (IF x[1] < 0 THEN -1 ELSE 0)
          ELSE x[1] \div (x[2] * 10^(-x[3])))

(***************************************************************************)
(* Signed square roots  <<s, q>> = s * sqrt(q)  with a rational q >= 0 and *)
(* s the sign (0 exactly when q is zero).                                  *)
(***************************************************************************)
RtNaR == <<0, NaR>>
IsRtNaR(a) == IsNaR(a[2])
RtOfQ(x)  == <<Sgn(x[1]), QMul(x, x)>>       \* the rational x
RtSqrt(q) == <<Sgn(q[1]), q>>                \* np.sqrt(q) of q >= 0
RtMul(a, b) == <<a[1] * b[1], QMul(a[2], b[2])>>
RtDiv(a, b) == IF b[1] = 0 THEN RtNaR ELSE <<a[1] * b[1], QDiv(a[2], b[2])>>
RtLess(a, b) ==
    IF a[1] # b[1] THEN a[1] < b[1]
    ELSE IF a[1] > 0 THEN QLess(a[2], b[2])
    ELSE IF a[1] < 0 THEN QLess(b[2], a[2])
    ELSE FALSE

(***************************************************************************)
(* Program constants of the engine.                                        *)
(***************************************************************************)
One  == Dec(1, 0)
Two  == Dec(2, 0)
Four == Dec(4, 0)
Ten  == Dec(1, 1)
E6   == Dec(1, -6)          \* 1e-6
E12  == Dec(1, -12)         \* 1e-12
E14  == Dec(1, -14)         \* the atol of normalize's np.allclose(col, 0, atol=1e-14)
RtOne == <<1, One>>

(***************************************************************************)
(* Parameter definitions (define_parameters): label, min, max, init, step. *)
(* Dec(n, e) is n * 10^e: Dec(5, -1) is 0.5 and Dec(25, 0) is 25.          *)
(***************************************************************************)
P(l, mn, mx, in, st) == [label |-> l, min |-> mn, max |-> mx, init |-> in, step |-> st]

params_method1 == << P("tau", Dec(1,-1), Dec(1,1), One, Dec(1,-1)),
                     P("K",   Dec(1,-1), Dec(1,1), One, Dec(1,-1)) >>
params_method2 == << P("wn",   Dec(1,-1), Dec(5,1), Dec(5,0),  Dec(5,-1)),
                     P("zeta", Dec(1,-2), Two,      Dec(7,-1), Dec(5,-2)),
                     P("K",    Dec(1,-1), Dec(1,1), One,       Dec(1,-1)) >>
params_method3 == << P("a2", Zero, Dec(1,1), One,       Dec(1,-1)),
                     P("a1", Zero, Dec(5,1), Dec(7,0),  Dec(1,-1)),
                     P("a0", Zero, Dec(5,2), Dec(25,0), Dec(5,-1)),
                     P("b",  Zero, Dec(1,2), Dec(25,0), Dec(5,-1)) >>
params_method4 == << P("b0", Zero,      Dec(1,2), Dec(25,0), Dec(5,-1)),
                     P("a2", Dec(1,-2), Dec(1,1), One,       Dec(1,-1)),
                     P("a1", Zero,      Dec(5,1), Dec(7,0),  Dec(1,-1)),
                     P("a0", Zero,      Dec(5,2), Dec(25,0), Dec(5,-1)) >>
params_method5 == << P("A11", Dec(-5,1), Dec(5,1), Zero,       Dec(5,-1)),
                     P("A12", Dec(-5,1), Dec(5,1), One,        Dec(5,-1)),
                     P("A21", Dec(-5,1), Dec(5,1), Dec(-25,0), Dec(5,-1)),
                     P("A22", Dec(-5,1), Dec(5,1), Dec(-7,0),  Dec(5,-1)) >>
params_pid     == << P("Kp", Zero, Dec(1,2), One,  Dec(1,-1)),
                     P("Ki", Zero, Dec(5,1), Zero, Dec(1,-1)),
                     P("Kd", Zero, Dec(2,1), Zero, Dec(1,-1)) >>
params_statefb == << P("K1", Dec(-1,2), Dec(1,2), One, Dec(5,-1)),
                     P("K2", Dec(-1,2), Dec(1,2), One, Dec(5,-1)) >>

\* indexed by plant kind 0..4 and controller kind 0..2
all_params(plant) ==
    << params_method1, params_method2, params_method3,
       params_method4, params_method5 >>[plant + 1]
\* the PID parameters for every controller
pid_for_every_controller(ctrl) == IF ctrl = 0 THEN <<>> ELSE params_pid
controller_params(ctrl) == << <<>>, params_pid, params_statefb >>[ctrl + 1]

PlantKinds == 0..4
ControllerKinds == 0..2

(***************************************************************************)
(* Polynomials: coefficient sequences, highest degree first.               *)
(***************************************************************************)
Scale(k, a) == [i \in 1..Len(a) |-> QMul(k, a[i])]

RECURSIVE ConvSum(_, _, _, _)
\* the sum over i of a[i] * b[k - i + 1]
ConvSum(a, b, k, i) ==
    IF i > Len(a) THEN Zero
    ELSE QAdd(IF k - i + 1 >= 1 /\ k - i + 1 <= Len(b)
              THEN QMul(a[i], b[k - i + 1]) ELSE Zero,
              ConvSum(a, b, k, i + 1))
\* np.convolve(a, b): the full discrete convolution
Convolve(a, b) == [k \in 1..(Len(a) + Len(b) - 1) |-> ConvSum(a, b, k, 1)]

\* a[j], and zero where a was padded
Coeff(a, j) == IF j >= 1 /\ j <= Len(a) THEN a[j] ELSE Zero
\* the sum with the shorter operand zero-padded on the right
PolyAddRight(a1, a2) ==
    [i \in 1..Max2(Len(a1), Len(a2)) |-> QAdd(Coeff(a1, i), Coeff(a2, i))]
\* np.polyadd(a1, a2): the shorter operand is zero-padded on the left
PolyAdd(a1, a2) ==
    [i \in 1..Max2(Len(a1), Len(a2)) |->
        QAdd(Coeff(a1, i - (Max2(Len(a1), Len(a2)) - Len(a1))),
             Coeff(a2, i - (Max2(Len(a1), Len(a2)) - Len(a2))))]

SeqHasNaR(a) == \E i \in 1..Len(a) : IsNaR(a[i])

\* np.all(np.abs(a) < 1e-12)
AllBelow(a) == \A i \in 1..Len(a) : QLess(QAbs(a[i]), E12)

(***************************************************************************)
(* PlantModel: convert_to_tf(values, method).  wn and zeta are signed      *)
(* square roots, the DC gain is a rational.                                *)
(***************************************************************************)
TF(n, d, w, z, k) == [num |-> n, den |-> d, wn |-> w, zeta |-> z, dc_gain |-> k]

\* the gain entering the denominator
GainInDenTF(tau, K) ==
    TF(<< K >>, << tau, K >>, RtOfQ(QDiv(One, tau)), RtOne, K)
\* method 0 after tau = max(tau, 1e-6)
TimeConstantTF(tau, K) ==
    TF(<< K >>, << tau, One >>, RtOfQ(QDiv(One, tau)), RtOne, K)

\* the damping term without its factor 2
HalfDampedTF(wn, zeta, K) ==
    TF(<< QMul(K, QMul(wn, wn)) >>,
       << One, QMul(zeta, wn), QMul(wn, wn) >>,
       RtOfQ(wn), RtOfQ(zeta), K)
\* the same system written with a unit constant term
UnitConstantTF(wn, zeta, K) ==
    TF(<< K >>,
       << QDiv(One, QMul(wn, wn)), QDiv(QMul(Two, zeta), wn), One >>,
       RtOfQ(wn), RtOfQ(zeta), K)
\* method 1
NaturalFrequencyTF(wn, zeta, K) ==
    TF(<< QMul(K, QMul(wn, wn)) >>,
       << One, QMul(QMul(Two, zeta), wn), QMul(wn, wn) >>,
       RtOfQ(wn), RtOfQ(zeta), K)

\* method 2 with the numerator b/a2 as it is
SignedNumODETF(a2, a1, a0, b) ==
    TF(<< QDiv(b, a2) >>,
       << One, QDiv(a1, a2), QDiv(a0, a2) >>,
       IF QLess(Zero, QDiv(a0, a2)) THEN RtSqrt(QDiv(a0, a2)) ELSE RtOne,
       IF QLess(Zero, QMul(a0, a2))
           THEN RtDiv(RtOfQ(a1), RtSqrt(QMul(Four, QMul(a0, a2))))
           ELSE RtOne,
       IF QLess(E12, QAbs(a0)) THEN QDiv(b, a0) ELSE One)
\* method 2 after a2 = max(abs(a2), 1e-6) and a0 = max(abs(a0), 1e-6)
ODECoeffsTF(a2, a1, a0, b) ==
    TF(<< QMax(QDiv(b, a2), E12) >>,
       << One, QDiv(a1, a2), QDiv(a0, a2) >>,
       IF QLess(Zero, QDiv(a0, a2)) THEN RtSqrt(QDiv(a0, a2)) ELSE RtOne,
       IF QLess(Zero, QMul(a0, a2))
           THEN RtDiv(RtOfQ(a1), RtSqrt(QMul(Four, QMul(a0, a2))))
           ELSE RtOne,
       IF QLess(E12, QAbs(a0)) THEN QDiv(b, a0) ELSE One)

\* method 3 reading its values in the order of method 2
LaplaceInODEOrder(b0, a2, a1, a0) == ODECoeffsTF(b0, a2, a1, a0)
\* method 3 after a2 = max(abs(a2), 1e-6) and a0 = max(abs(a0), 1e-6)
LaplaceTF(b0, a2, a1, a0) ==
    TF(<< QMax(QDiv(b0, a2), E12) >>,
       << One, QDiv(a1, a2), QDiv(a0, a2) >>,
       IF QLess(Zero, QDiv(a0, a2)) THEN RtSqrt(QDiv(a0, a2)) ELSE RtOne,
       IF QLess(Zero, QMul(a0, a2))
           THEN RtDiv(RtOfQ(a1), RtSqrt(QMul(Four, QMul(a0, a2))))
           ELSE RtOne,
       IF QLess(E12, QAbs(a0)) THEN QDiv(b0, a0) ELSE One)

\* method 4 with the trace entering the denominator unnegated
PlusTraceTF(A12, trace_A, det_A) ==
    TF(<< A12 >>,
       << One, trace_A, det_A >>,
       IF QLess(Zero, det_A) THEN RtSqrt(det_A) ELSE RtOne,
       IF QLess(Zero, det_A)
           THEN RtDiv(RtOfQ(QNeg(trace_A)), RtSqrt(QMul(Four, det_A)))
           ELSE RtOne,
       IF QLess(E12, QAbs(det_A)) THEN QDiv(A12, det_A) ELSE One)
\* method 4 with trace_A = A11 + A22 and det_A = A11*A22 - A12*A21
StateSpaceTF(A12, trace_A, det_A) ==
    TF(<< A12 >>,
       << One, QNeg(trace_A), det_A >>,
       IF QLess(Zero, det_A) THEN RtSqrt(det_A) ELSE RtOne,
       IF QLess(Zero, det_A)
           THEN RtDiv(RtOfQ(QNeg(trace_A)), RtSqrt(QMul(Four, det_A)))
           ELSE RtOne,
       IF QLess(E12, QAbs(det_A)) THEN QDiv(A12, det_A) ELSE One)

\* the conversion without the guards on tau, a2 and a0
convert_unguarded(values, method) ==
    CASE method = 0 -> TimeConstantTF(values[1], values[2])
      [] method = 1 -> NaturalFrequencyTF(values[1], values[2], values[3])
      [] method = 2 -> ODECoeffsTF(values[1], values[2], values[3], values[4])
      [] method = 3 -> LaplaceTF(values[1], values[2], values[3], values[4])
      [] method = 4 -> StateSpaceTF(values[2], QAdd(values[1], values[4]),
                                    QSub(QMul(values[1], values[4]),
                                         QMul(values[2], values[3])))
convert_to_tf(values, method) ==
    CASE method = 0 -> TimeConstantTF(QMax(values[1], E6), values[2])
      [] method = 1 -> NaturalFrequencyTF(values[1], values[2], values[3])
      [] method = 2 -> ODECoeffsTF(QMax(QAbs(values[1]), E6), values[2],
                                   QMax(QAbs(values[3]), E6), values[4])
      [] method = 3 -> LaplaceTF(values[1], QMax(QAbs(values[2]), E6), values[3],
                                 QMax(QAbs(values[4]), E6))
      [] method = 4 -> StateSpaceTF(values[2], QAdd(values[1], values[4]),
                                    QSub(QMul(values[1], values[4]),
                                         QMul(values[2], values[3])))

(***************************************************************************)
(* Controller and ClosedLoopSynthesizer: compute_closed_loop.              *)
(* plant_values is what get_plant_values() returns inside the method.      *)
(***************************************************************************)
CL(n, d) == [num |-> n, den |-> d]

\* unity feedback around the plant with a proportional gain of one
UnityFeedback(num_plant, den_plant) == CL(num_plant, PolyAdd(den_plant, num_plant))
\* controller 0, and the final return: the plant as it is
NoController(num_plant, den_plant) == CL(num_plant, den_plant)

\* unity feedback around the open loop num_ol / den_ol
CloseLoop(num_ol, den_ol) == CL(num_ol, PolyAdd(den_ol, num_ol))

\* controller 1 in series with the plant, the loop left open
PIDSeriesOnly(num_plant, den_plant, controller_values) ==
    CL(Convolve(<< controller_values[3], controller_values[1],
                   controller_values[2] >>, num_plant),
       Convolve(<< One, Zero >>, den_plant))
\* controller 1: C(s) = (Kd*s^2 + Kp*s + Ki) / s in series with the plant
PIDClosedLoop(num_plant, den_plant, controller_values) ==
    CloseLoop(Convolve(<< controller_values[3], controller_values[1],
                          controller_values[2] >>, num_plant),
              Convolve(<< One, Zero >>, den_plant))

\* controller 2 on plant 4: the plant's own characteristic polynomial
StateSpaceOpenLoop(plant_values, controller_values) ==
    CL(<< Zero, Zero, plant_values[2] >>,
       << One, QNeg(QAdd(plant_values[1], plant_values[4])),
          QSub(QMul(plant_values[1], plant_values[4]),
               QMul(plant_values[2], plant_values[3])) >>)
\* controller 2 on plant 4, for A_cl = [[A11, A12], [A21 - K1, A22 - K2]]
StateSpaceClosedLoop(plant_values, controller_values) ==
    CL(IF QLess(QAbs(plant_values[2]), E12)
           THEN << Zero, Zero, E6 >> ELSE << Zero, Zero, plant_values[2] >>,
       << One,
          QNeg(QAdd(plant_values[1], QSub(plant_values[4], controller_values[2]))),
          QSub(QMul(plant_values[1], QSub(plant_values[4], controller_values[2])),
               QMul(plant_values[2], QSub(plant_values[3], controller_values[1]))) >>)

\* the first gain alone
FirstGain(controller_values) == controller_values[1]
\* sum(controller_values) for the two gains of controller 2
K_eff(controller_values) == QAdd(QAdd(Zero, controller_values[1]), controller_values[2])

\* controller 2 on another plant: output feedback with the gain K_eff
OutputFeedbackClosedLoop(num_plant, den_plant, controller_values) ==
    CloseLoop(Scale(K_eff(controller_values), num_plant), den_plant)

compute_closed_loop(controller, plant, plant_values, num_plant, den_plant, controller_values) ==
    IF controller = 0 THEN NoController(num_plant, den_plant)
    ELSE IF controller = 1 THEN PIDClosedLoop(num_plant, den_plant, controller_values)
    ELSE IF plant = 4 /\ Len(plant_values) >= 4
         THEN StateSpaceClosedLoop(plant_values, controller_values)
         ELSE OutputFeedbackClosedLoop(num_plant, den_plant, controller_values)

(***************************************************************************)
(* The validation in update_plots (the degeneracy floor).                  *)
(***************************************************************************)
FloorNum(num_cl) == IF AllBelow(num_cl) THEN << E12 >> ELSE num_cl
KeepDen(den_cl) == den_cl
FloorDen(den_cl) == IF AllBelow(den_cl) THEN << One, One >> ELSE den_cl

(***************************************************************************)
(* np.roots(p).  Leading and trailing exact zeros are stripped, the roots  *)
(* of what is left are the eigenvalues of its companion matrix, in an      *)
(* order the solver defines (any order here), and one zero root per        *)
(* stripped trailing zero is appended.  A pole is its real part, the       *)
(* square of its imaginary part and the sign of the imaginary part.        *)
(***************************************************************************)
Pole(r, i2, s) == [re |-> r, im2 |-> i2, ims |-> s]
PoleQ(q)  == Pole(q, Zero, 0)
NaRPole   == Pole(NaR, NaR, 0)
IsNaRPole(p) == IsNaR(p.re) \/ IsNaR(p.im2)

NonZeroIdx(p) == {i \in 1..Len(p) : p[i] # Zero}
FirstNZ(p) == CHOOSE i \in NonZeroIdx(p) : \A j \in NonZeroIdx(p) : i <= j
LastNZ(p)  == CHOOSE i \in NonZeroIdx(p) : \A j \in NonZeroIdx(p) : i >= j
Core(p) == SubSeq(p, FirstNZ(p), LastNZ(p))

RealPair(mid, k) == << PoleQ(QAdd(mid, k)), PoleQ(QSub(mid, k)) >>
ConjPair(mid, i2) == << Pole(mid, i2, 1), Pole(mid, i2, -1) >>
\* the roots mid +- h*sqrt(D) of a quadratic with discriminant D
QuadFrom(mid, h, D) ==
    IF D[1] < 0 THEN ConjPair(mid, QMul(QNeg(D), QMul(h, h)))
    ELSE IF QIsSquare(D) THEN RealPair(mid, QMul(h, QSqrt(D)))
    ELSE << NaRPole, NaRPole >>
\* the two roots of a*s^2 + b*s + c, a # 0
QuadRoots(a, b, c) ==
    QuadFrom(QNeg(QDiv(b, QMul(Two, a))), QDiv(One, QMul(Two, a)),
             QSub(QMul(b, b), QMul(Four, QMul(a, c))))

RECURSIVE Horner(_, _, _)
Horner(p, x, acc) == IF p = <<>> THEN acc ELSE Horner(Tail(p), x, QAdd(QMul(acc, x), p[1]))
PolyEval(p, x) == Horner(p, x, Zero)

RootCands == { Canon(n, 2, 0) : n \in (-2 * RootCandMax)..(2 * RootCandMax) } \ {Zero}

\* a cubic c with the root q: q and the roots of the deflated quadratic
Deflate(c, q) ==
    << PoleQ(q) >> \o QuadRoots(c[1], QAdd(c[2], QMul(c[1], q)),
                                QAdd(c[3], QMul(QAdd(c[2], QMul(c[1], q)), q)))
CubicWith(c, rs) ==
    IF rs = {} THEN << NaRPole, NaRPole, NaRPole >>
    ELSE Deflate(c, CHOOSE x \in rs : \A y \in rs : QLeq(x, y))
CubicRoots(c) == CubicWith(c, {q \in RootCands : PolyEval(c, q) = Zero})

\* the roots of a polynomial with nonzero first and last coefficient
CoreRoots(c) ==
    IF Len(c) = 1 THEN <<>>
    ELSE IF Len(c) = 2 THEN << PoleQ(QNeg(QDiv(c[2], c[1]))) >>
    ELSE IF Len(c) = 3 THEN QuadRoots(c[1], c[2], c[3])
    ELSE IF Len(c) = 4 THEN CubicRoots(c)
    ELSE [i \in 1..(Len(c) - 1) |-> NaRPole]

Orders(s) == { [i \in 1..Len(s) |-> s[f[i]]] : f \in Permutations(1..Len(s)) }
ZeroRoots(n) == [i \in 1..n |-> PoleQ(Zero)]

\* every sequence np.roots(p) may return
roots(p) ==
    IF NonZeroIdx(p) = {} THEN { <<>> }
    ELSE { o \o ZeroRoots(Len(p) - LastNZ(p)) : o \in Orders(CoreRoots(Core(p))) }

PolesHaveNaR(ps) == \E i \in 1..Len(ps) : IsNaRPole(ps[i])

(***************************************************************************)
(* ResponseAnalyzer: the time vector of update_plots.                      *)
(***************************************************************************)
RECURSIVE MaxRealFrom(_, _, _)
MaxRealFrom(ps, i, acc) ==
    IF i > Len(ps) THEN acc ELSE MaxRealFrom(ps, i + 1, QMax(acc, ps[i].re))
\* np.max(np.real(poles_cl)) of a non-empty pole sequence
MaxReal(ps) == MaxRealFrom(ps, 2, ps[1].re)

\* the fallback horizon alone
FixedHorizon(max_real) == Ten
SettleHorizon(max_real) ==
    IF max_real[1] < 0 THEN QMax(QDiv(Four, QAbs(max_real)), One) ELSE Ten

\* np.linspace(start, stop, num)
Linspace(start, stop, num) == [start |-> start, stop |-> stop, num |-> num]
\* t = np.linspace(0, T_settle * 4, 1000)
TimeVector(T_settle) == Linspace(Zero, QMul(T_settle, Four), 1000)
NoSamples == Linspace(Zero, Zero, 0)

(***************************************************************************)
(* scipy.signal.step / impulse realise the transfer function in state      *)
(* space (tf2ss after normalize): the leading exact zeros of the           *)
(* denominator are trimmed, both are divided by its leading coefficient,   *)
(* the leading numerator coefficients within 1e-14 of zero are trimmed,    *)
(* and a numerator longer than the denominator raises ValueError           *)
(* ("Improper transfer function").                                         *)
(***************************************************************************)
RECURSIVE TrimDen(_)
TrimDen(den) ==
    IF Len(den) > 1 /\ den[1] = Zero THEN TrimDen(Tail(den)) ELSE den
RECURSIVE TrimNum(_, _)
TrimNum(num, lead) ==
    IF Len(num) > 1 /\ QLeq(QAbs(num[1]), QMul(E14, QAbs(lead)))
    THEN TrimNum(Tail(num), lead) ELSE num
Improper(num, den) == Len(TrimNum(num, TrimDen(den)[1])) > Len(TrimDen(den))

(***************************************************************************)
(* FrequencyAnalyzer.  The grid np.logspace(-2, 2, 300) and 20*log10 are   *)
(* irrational but for the first sample, w[0] = 0.01.  The model decides    *)
(* exactly whether mag[0] <= -3, i.e. |H(j*0.01)|^2 <= 10^(-3/10), with    *)
(* 0.5011 < 10^(-3/10) < 0.5012; when mag[0] <= -3 the first index of      *)
(* np.where(mag <= -3) is 0 and no -3 dB marker is drawn.                  *)
(***************************************************************************)
W0    == Dec(1, -2)
Db3Lo == Dec(5011, -4)
Db3Hi == Dec(5012, -4)

RECURSIVE HornerJw(_, _, _, _)
\* p(j*w) as <<real part, imaginary part>>
HornerJw(p, w, re, im) ==
    IF p = <<>> THEN << re, im >>
    ELSE HornerJw(Tail(p), w, QAdd(QNeg(QMul(im, w)), p[1]), QMul(re, w))
AbsSq(v) == QAdd(QMul(v[1], v[1]), QMul(v[2], v[2]))
AbsSqAtJw(p, w) == AbsSq(HornerJw(p, w, Zero, Zero))

\* "first": mag[0] <= -3;  "later": mag[0] > -3;  "undetermined": not decided
Classify3dB(gain2) ==
    IF IsNaR(gain2) THEN "undetermined"
    ELSE IF QLess(gain2, Db3Lo) THEN "first"
    ELSE IF QLess(Db3Hi, gain2) THEN "later"
    ELSE "undetermined"
FirstSample3dB(num, den) == Classify3dB(QDiv(AbsSqAtJw(num, W0), AbsSqAtJw(den, W0)))

(***************************************************************************)
(* The crossover search of the Bode markers, on a sampled series x over    *)
(* the grid w (both 1-indexed here; index k is the program's k - 1).       *)
(***************************************************************************)
\* np.where(x <= target)[0]
WhereLeq(x, target) == {k \in 1..Len(x) : x[k] <= target}
\* its first element
FirstIdx(idx) == CHOOSE k \in idx : \A j \in idx : k <= j

\* np.interp(v, xp, fp) for two points.  The search of the interval assumes
\* an increasing xp and does not check it: v > xp[-1] yields fp[-1], else
\* v < xp[0] yields fp[0], else the point j with xp[j] <= v is looked up
interp(v, xp, fp) ==
    IF v > xp[2] THEN Q(fp[2])
    ELSE IF v < xp[1] THEN Q(fp[1])
    ELSE IF v >= xp[2] THEN Q(fp[2])
    ELSE IF xp[1] = v THEN Q(fp[1])
    ELSE Canon(fp[1] * (xp[2] - xp[1]) + (v - xp[1]) * (fp[2] - fp[1]), xp[2] - xp[1], 0)

NoMarker == [found |-> FALSE, idx |-> 0, omega |-> Zero]
Marker(k, om) == [found |-> TRUE, idx |-> k, omega |-> om]
\* the marker of one target: none when no sample is at or below the target
\* or when the first such sample is the first of the series
MarkerAt(w, x, target, idx) ==
    IF idx = {} THEN NoMarker
    ELSE IF FirstIdx(idx) > 1
    THEN Marker(FirstIdx(idx),
                interp(target, << x[FirstIdx(idx) - 1], x[FirstIdx(idx)] >>,
                               << w[FirstIdx(idx) - 1], w[FirstIdx(idx)] >>))
    ELSE NoMarker
LocateCrossover(w, x, target) == MarkerAt(w, x, target, WhereLeq(x, target))

(***************************************************************************)
(* StabilityMetrics: update_info(poles_cl, wn, zeta).                      *)
(***************************************************************************)
NegE6 == Dec(-1, -6)

\* every pole in the open left half plane
AllNegative(poles) == \A i \in 1..Len(poles) : QLess(poles[i].re, Zero)
\* no pole in the open right half plane
NoneInRightHalf(poles) == \A i \in 1..Len(poles) : QLeq(poles[i].re, Zero)
\* np.all(np.real(poles_cl) < -1e-6)
IsStable(poles) == \A i \in 1..Len(poles) : QLess(poles[i].re, NegE6)

\* np.abs(p)
PoleAbs(p) == RtSqrt(QAdd(QMul(p.re, p.re), p.im2))

\* max(0, x)
RtMax0(x) == IF x[1] > 0 THEN x ELSE <<0, Zero>>

LastPole(poles) == poles[Len(poles)]
\* poles_cl[0]
FirstPole(poles) == poles[1]

\* the damping ratio of the first pole whatever its imaginary part
DampingOfAnyPole(p0) == RtMax0(RtDiv(RtOfQ(QNeg(p0.re)), PoleAbs(p0)))
\* the ratio -Re/|p| as it is, negative in the right half plane
SignedRatio(p0) ==
    IF QLess(E12, p0.im2) THEN RtDiv(RtOfQ(QNeg(p0.re)), PoleAbs(p0))
    ELSE RtOne
\* |Im p| > 1e-6  iff  (Im p)^2 > 1e-12
ClZeta(p0) ==
    IF QLess(E12, p0.im2) THEN RtMax0(RtDiv(RtOfQ(QNeg(p0.re)), PoleAbs(p0)))
    ELSE RtOne

Metrics(os, nan, ts) == [overshoot |-> os, settling_nan |-> nan, settling |-> ts]
\* no figures at all
NoFigures(cl_zeta, cl_wn) == Metrics("zero", TRUE, <<0, Zero>>)
\* figures for an underdamped first pole only
UnderdampedOnly(cl_zeta, cl_wn) ==
    IF cl_zeta[1] > 0 /\ QLess(cl_zeta[2], One) /\ cl_zeta[1] * cl_wn[1] > 0
    THEN Metrics("exp", FALSE, RtDiv(RtOfQ(Four), RtMul(cl_zeta, cl_wn)))
    ELSE Metrics("zero", TRUE, <<0, Zero>>)
\* overshoot is "zero" or "exp" (100*exp(-zeta*pi/sqrt(1-zeta^2)) of cl_zeta);
\* settling is 4 / (cl_zeta * cl_wn) unless it stays NaN
Perf(cl_zeta, cl_wn) ==
    IF cl_zeta[1] > 0 /\ QLess(cl_zeta[2], One)
    THEN (IF cl_zeta[1] * cl_wn[1] > 0
          THEN Metrics("exp", FALSE, RtDiv(RtOfQ(Four), RtMul(cl_zeta, cl_wn)))
          ELSE Metrics("exp", TRUE, <<0, Zero>>))
    ELSE IF cl_zeta[1] > 0 /\ QLeq(One, cl_zeta[2]) /\ cl_wn[1] > 0
    THEN Metrics("zero", FALSE, RtDiv(RtOfQ(Four), RtMul(cl_zeta, cl_wn)))
    ELSE Metrics("zero", TRUE, <<0, Zero>>)

Info(poles, stable, wn, zeta, perf) ==
    [ poles |-> poles, is_stable |-> stable, cl_wn |-> wn, cl_zeta |-> zeta,
      overshoot |-> perf.overshoot, settling_nan |-> perf.settling_nan,
      settling |-> perf.settling ]

update_info(poles_cl, wn_plant, zeta_plant) ==
    Info(poles_cl, IsStable(poles_cl), PoleAbs(FirstPole(poles_cl)),
         ClZeta(FirstPole(poles_cl)),
         Perf(ClZeta(FirstPole(poles_cl)), PoleAbs(FirstPole(poles_cl))))

NoInfo == Info(<<>>, FALSE, <<0, Zero>>, <<0, Zero>>, Metrics("zero", TRUE, <<0, Zero>>))

InfoHasNaR(i) == IsRtNaR(i.cl_wn) \/ IsRtNaR(i.cl_zeta) \/ IsRtNaR(i.settling)

(***************************************************************************)
(* The controls.  A control is a Tk Scale or a Tk Entry holding a value;   *)
(* an Entry may also hold text that float() rejects (BadText).             *)
(* How a Scale rounds depends on the Tk build: "zero" rounds the value,    *)
(* from_ and to to multiples of the resolution; "from" rounds the offset   *)
(* of the value from from_ and leaves from_ and to as given.               *)
(***************************************************************************)
BadText == <<1, 0, 0>>
TkBuilds == {"zero", "from"}

\* the multiple of the resolution nearest to value (halves go up)
RoundTicks(resolution, twice) ==
    IF IsNaR(twice) THEN NaR
    ELSE QMul(resolution, Q((QFloorInt(twice) + 1) \div 2))
RoundToResolution(value, resolution) ==
    RoundTicks(resolution, QMul(Two, QDiv(value, resolution)))

ScaleFrom(build, param) ==
    IF build = "zero" THEN RoundToResolution(param.min, param.step) ELSE param.min
Clamp(lo, hi, r) == IF QLess(r, lo) THEN lo ELSE IF QLess(hi, r) THEN hi ELSE r

\* slider.set(v) followed by slider.get(): rounded, then kept inside the
\* range; a value a step or more outside the range ends on its border
SliderSet(build, param, v) ==
    IF QLess(QAdd(param.max, param.step), v) THEN param.max
    ELSE IF QLess(v, QSub(param.min, param.step)) THEN ScaleFrom(build, param)
    ELSE Clamp(ScaleFrom(build, param), param.max,
               IF build = "zero" THEN RoundToResolution(v, param.step)
               ELSE QAdd(param.min,
                         RoundToResolution(QSub(v, param.min), param.step)))

\* entry.insert(0, f"{v:.6g}") followed by float(entry.get()): six significant
\* digits, which keeps every decimal the model holds (mantissa below 10^6)
FormatG6(v) == IF v[2] = 1 /\ Abs(v[1]) < 10^6 THEN v ELSE NaR

MakeControl(build, mode, param, init_val) ==
    IF mode = "slider"
    THEN [widget |-> "slider", value |-> SliderSet(build, param, init_val)]
    ELSE [widget |-> "entry",  value |-> FormatG6(init_val)]

ReadControls(controls, params) ==
    [i \in 1..Len(controls) |->
        IF controls[i].widget = "slider" THEN controls[i].value
        ELSE IF controls[i].value = BadText THEN params[i].init
        ELSE controls[i].value]

get_plant_values(controls, plant) == ReadControls(controls, all_params(plant))
get_controller_values(controls, ctrl) ==
    IF controls = <<>> THEN <<>> ELSE ReadControls(controls, controller_params(ctrl))

\* the controls update_controls builds for one parameter list; saved is the
\* value list to preserve, or <<>> for the defaults
BuildControls(build, mode, params, preserve_values, saved) ==
    [i \in 1..Len(params) |->
        MakeControl(build, mode, params[i],
                    IF preserve_values /\ saved # <<>> /\ i <= Len(saved)
                    THEN saved[i] ELSE params[i].init)]

ControlsHaveNaR(controls) == \E i \in 1..Len(controls) : controls[i].value = NaR

(***************************************************************************)
(* State.  The engine keeps no state between runs; the variables after     *)
(* edits hold the values the last run of update_plots worked with.         *)
(***************************************************************************)
VARIABLES
    tk_build,               \* how the Scales of this Tk build round
    current_plant,          \* 0..4
    current_controller,     \* 0..2
    input_mode,             \* "slider" or "text"
    plant_controls,         \* the plant parameter controls
    controller_controls,    \* the controller parameter controls
    edits,                  \* parameter edits since the controls were rebuilt from defaults
    plant_values,           \* what get_plant_values returned in the last update_plots
    controller_values,      \* what get_controller_values returned in it
    plant_tf,               \* what convert_to_tf returned in it
    closed_loop,            \* what compute_closed_loop returned in it
    num_cl, den_cl,         \* the closed loop it analysed
    poles_cl,               \* np.roots(den_cl)
    T_settle,               \* the horizon of the last update_plots that chose one
    t,                      \* its time vector
    step_T, impulse_T,      \* the time vectors of the last signal.step / signal.impulse
    bw3db,                  \* the first sample of the last Bode magnitude against -3 dB
    info,                   \* what the last update_info displayed
    err,                    \* how the last update_plots ended
    series,                 \* a sampled Bode series handed to the marker search
    markers,                \* the markers found on it
    report                  \* the analysis export_callback last wrote to a file

ui   == << tk_build, current_plant, current_controller, input_mode, plant_controls,
           controller_controls, edits >>
outs == << plant_values, controller_values, plant_tf, closed_loop, num_cl, den_cl, poles_cl,
           T_settle, t, step_T, impulse_T, bw3db, info, err >>
freq == << series, markers >>
vars == << ui, outs, freq, report >>

Modes == {"slider", "text"}

\* the values a user types in the model
TextGrid == { Dec(-1, 0), Zero, Dec(1, -13), Dec(5, -1), One, Dec(125, -2), Dec(1, 6) }
TextInputs == TextGrid \cup {BadText}
\* the positions of a slider in the model
SliderGrid(build, param) == { v \in TextGrid : SliderSet(build, param, v) = v }

(***************************************************************************)
(* update_plots, statement by statement.  The outcome is a record of the   *)
(* values the run computed; a value computed after the statement that      *)
(* raised keeps its old value (the except clause only prints).             *)
(***************************************************************************)
Outs == [ plant_values |-> plant_values, controller_values |-> controller_values,
          plant_tf |-> plant_tf, closed_loop |-> closed_loop,
          num_cl |-> num_cl, den_cl |-> den_cl,
          poles_cl |-> poles_cl, T_settle |-> T_settle, t |-> t,
          step_T |-> step_T, impulse_T |-> impulse_T, bw3db |-> bw3db,
          info |-> info, err |-> err ]

\* the horizon added to that of the run before
PlotAccumulating(o, tf, num, den, poles, T) ==
    IF IsNaR(T) THEN [o EXCEPT !.err = "NaR"]
    ELSE [o EXCEPT !.T_settle = QAdd(o.T_settle, T),
                   !.t = TimeVector(QAdd(o.T_settle, T)),
                   !.step_T = TimeVector(QAdd(o.T_settle, T)),
                   !.impulse_T = TimeVector(QAdd(o.T_settle, T)),
                   !.bw3db = FirstSample3dB(num, den),
                   !.info = update_info(poles, tf.wn, tf.zeta),
                   !.err = "none"]
\* the plots and the info panel, for the horizon T
Plot(o, tf, num, den, poles, T) ==
    IF IsNaR(T) THEN [o EXCEPT !.err = "NaR"]
    ELSE IF Improper(num, den)
    THEN [o EXCEPT !.T_settle = T, !.t = TimeVector(T), !.err = "improper"]
    ELSE [o EXCEPT !.T_settle = T, !.t = TimeVector(T),
                   !.step_T = TimeVector(T), !.impulse_T = TimeVector(T),
                   !.bw3db = FirstSample3dB(num, den),
                   !.info = update_info(poles, tf.wn, tf.zeta),
                   !.err = "none"]

\* np.max(np.real(poles_cl)) raises ValueError on an empty pole array
Horizon(o, tf, num, den, poles) ==
    IF poles = <<>> THEN [o EXCEPT !.poles_cl = poles, !.err = "max_of_empty"]
    ELSE IF PolesHaveNaR(poles) THEN [o EXCEPT !.err = "NaR"]
    ELSE Plot([o EXCEPT !.poles_cl = poles], tf, num, den, poles,
              SettleHorizon(MaxReal(poles)))

Analyse(o, tf, num, den) ==
    { Horizon([o EXCEPT !.num_cl = num, !.den_cl = den], tf, num, den, poles) :
        poles \in roots(den) }

Validate(o, tf, cl) ==
    IF SeqHasNaR(cl.num) \/ SeqHasNaR(cl.den)
       \/ IsRtNaR(tf.wn) \/ IsRtNaR(tf.zeta) \/ IsNaR(tf.dc_gain)
    THEN { [o EXCEPT !.err = "NaR"] }
    ELSE Analyse([o EXCEPT !.plant_tf = tf, !.closed_loop = cl], tf,
                 FloorNum(cl.num), FloorDen(cl.den))

Synthesise(o, plant, ctrl, pv, cv, tf) ==
    Validate([o EXCEPT !.plant_values = pv, !.controller_values = cv], tf,
             compute_closed_loop(ctrl, plant, pv, tf.num, tf.den, cv))

Convert(o, plant, ctrl, pv, cv) ==
    Synthesise(o, plant, ctrl, pv, cv, convert_to_tf(pv, plant))

\* the outcomes of update_plots() on the controls pctl and cctl
update_plots(prev, plant, ctrl, pctl, cctl) ==
    Convert(prev, plant, ctrl, get_plant_values(pctl, plant),
            get_controller_values(cctl, ctrl))

\* every number of the outcome is representable
InDomain(o) == o.err # "NaR" /\ ~ InfoHasNaR(o.info)

\* nothing computed yet
Blank == [ plant_values |-> <<>>, controller_values |-> <<>>,
           plant_tf |-> TF(<<>>, <<>>, RtOne, RtOne, One),
           closed_loop |-> CL(<<>>, <<>>),
           num_cl |-> <<>>, den_cl |-> <<>>, poles_cl |-> <<>>,
           T_settle |-> Zero, t |-> NoSamples, step_T |-> NoSamples,
           impulse_T |-> NoSamples, bw3db |-> "undetermined",
           info |-> NoInfo, err |-> "none" ]

\* a run whose numbers leave the model's arithmetic: the values it read are
\* kept, what it computed from them is not known (err = "NaR")
Unrepresented(o) ==
    [ Blank EXCEPT !.plant_values = o.plant_values,
                   !.controller_values = o.controller_values,
                   !.err = "NaR" ]

Assign(o) ==
    /\ plant_values' = o.plant_values
    /\ controller_values' = o.controller_values
    /\ plant_tf' = o.plant_tf
    /\ closed_loop' = o.closed_loop
    /\ num_cl' = o.num_cl
    /\ den_cl' = o.den_cl
    /\ poles_cl' = o.poles_cl
    /\ T_settle' = o.T_settle
    /\ t' = o.t
    /\ step_T' = o.step_T
    /\ impulse_T' = o.impulse_T
    /\ bw3db' = o.bw3db
    /\ info' = o.info
    /\ err' = o.err

\* the run of update_plots() that ends a handler, on the new controls
Replot(plant, ctrl, pctl, cctl) ==
    /\ ~ ControlsHaveNaR(pctl) /\ ~ ControlsHaveNaR(cctl)
    /\ \E o \in update_plots(Outs, plant, ctrl, pctl, cctl) :
          Assign(IF InDomain(o) THEN o ELSE Unrepresented(o))
    /\ UNCHANGED << freq, report >>

\* update_controls(preserve_values) followed by update_plots()
Rebuild(plant, ctrl, mode, preserve_values) ==
    /\ plant_controls' =
          BuildControls(tk_build, mode, all_params(plant), preserve_values,
                        IF preserve_values
                        THEN get_plant_values(plant_controls, current_plant) ELSE <<>>)
    /\ controller_controls' =
          IF ctrl > 0
          THEN BuildControls(tk_build, mode, controller_params(ctrl), preserve_values,
                             IF preserve_values
                             THEN get_controller_values(controller_controls,
                                                        current_controller)
                             ELSE <<>>)
          ELSE <<>>
    /\ Replot(plant, ctrl, plant_controls', controller_controls')

(***************************************************************************)
(* export_callback: the analysis written to system_response_<time>.txt.    *)
(* It reads the controls and converts and closes the loop as update_plots  *)
(* does, then hands the closed loop as it is to signal.TransferFunction    *)
(* (whose normalize raises ValueError on an all-zero denominator) and to   *)
(* np.roots.  np.all of an empty pole array is True, and poles_cl[0] of an *)
(* empty array raises IndexError after the verdict was written.            *)
(***************************************************************************)
NoReport ==
    [ status |-> "nothing", plant |-> 0, controller |-> 0,
      plant_values |-> <<>>, controller_values |-> <<>>,
      num_cl |-> <<>>, den_cl |-> <<>>, poles_cl |-> <<>>, zeros_cl |-> <<>>,
      is_stable |-> FALSE, cl_wn |-> <<0, Zero>>, cl_zeta |-> <<0, Zero>>,
      overshoot |-> "nan", settling_nan |-> TRUE, settling |-> <<0, Zero>>,
      bw3db |-> "undetermined" ]

\* overshoot starts as NaN here: it stays NaN where update_info shows 0
\* without a settling time
ExportPerf(perf) ==
    IF perf.overshoot = "zero" /\ perf.settling_nan
    THEN [perf EXCEPT !.overshoot = "nan"] ELSE perf

\* the lines written for the poles and zeros found
Written(r, poles, zeros, perf) ==
    IF PolesHaveNaR(poles) \/ PolesHaveNaR(zeros) THEN [r EXCEPT !.status = "NaR"]
    ELSE IF poles = <<>>
    THEN [r EXCEPT !.status = "index_of_empty", !.zeros_cl = zeros, !.is_stable = TRUE]
    ELSE IF IsRtNaR(PoleAbs(FirstPole(poles))) \/ IsRtNaR(ClZeta(FirstPole(poles)))
            \/ IsRtNaR(perf.settling)
    THEN [r EXCEPT !.status = "NaR"]
    ELSE [r EXCEPT !.status = "written", !.poles_cl = poles, !.zeros_cl = zeros,
                   !.is_stable = IsStable(poles),
                   !.cl_wn = PoleAbs(FirstPole(poles)),
                   !.cl_zeta = ClZeta(FirstPole(poles)),
                   !.overshoot = perf.overshoot,
                   !.settling_nan = perf.settling_nan,
                   !.settling = perf.settling,
                   !.bw3db = FirstSample3dB(r.num_cl, r.den_cl)]

\* every report export_callback may write for the closed loop cl
Export(r, tf, cl) ==
    IF SeqHasNaR(cl.num) \/ SeqHasNaR(cl.den)
       \/ IsRtNaR(tf.wn) \/ IsRtNaR(tf.zeta) \/ IsNaR(tf.dc_gain)
    THEN { [r EXCEPT !.status = "NaR"] }
    ELSE IF \A i \in 1..Len(cl.den) : cl.den[i] = Zero
    THEN { [r EXCEPT !.status = "zero_denominator", !.num_cl = cl.num, !.den_cl = cl.den] }
    ELSE { Written([r EXCEPT !.num_cl = cl.num, !.den_cl = cl.den], poles, zeros,
                   IF poles = <<>> \/ PolesHaveNaR(poles) THEN NoFigures(RtOne, RtOne)
                   ELSE ExportPerf(Perf(ClZeta(FirstPole(poles)),
                                        PoleAbs(FirstPole(poles))))) :
             poles \in roots(cl.den), zeros \in roots(cl.num) }

\* the Export button.  Every handler ends with update_plots, so an export
\* follows a run of update_plots
export_callback ==
    /\ err # "pending"
    /\ ~ ControlsHaveNaR(plant_controls) /\ ~ ControlsHaveNaR(controller_controls)
    /\ report' \in
          Export([NoReport EXCEPT
                     !.plant = current_plant, !.controller = current_controller,
                     !.plant_values = get_plant_values(plant_controls, current_plant),
                     !.controller_values =
                         get_controller_values(controller_controls, current_controller)],
                 convert_to_tf(get_plant_values(plant_controls, current_plant),
                               current_plant),
                 compute_closed_loop(
                     current_controller, current_plant,
                     get_plant_values(plant_controls, current_plant),
                     convert_to_tf(get_plant_values(plant_controls, current_plant),
                                   current_plant).num,
                     convert_to_tf(get_plant_values(plant_controls, current_plant),
                                   current_plant).den,
                     get_controller_values(controller_controls, current_controller)))
    /\ UNCHANGED << ui, outs, freq >>

(***************************************************************************)
(* The state after construction: __init__ builds the default controls of   *)
(* plant 0 without a controller, in slider mode, and runs update_plots.    *)
(***************************************************************************)
NoSeries == [kind |-> "none", w |-> <<>>, x |-> <<>>]

Constructed ==
    /\ tk_build \in TkBuilds
    /\ current_plant = 0
    /\ current_controller = 0
    /\ input_mode = "slider"
    /\ plant_controls = BuildControls(tk_build, "slider", all_params(0), FALSE, <<>>)
    /\ controller_controls = <<>>
    /\ edits = 0
    /\ \E o \in update_plots(Blank, 0, 0, plant_controls, controller_controls) :
          /\ plant_values = o.plant_values
          /\ controller_values = o.controller_values
          /\ plant_tf = o.plant_tf
          /\ closed_loop = o.closed_loop
          /\ num_cl = o.num_cl
          /\ den_cl = o.den_cl
          /\ poles_cl = o.poles_cl
          /\ T_settle = o.T_settle
          /\ t = o.t
          /\ step_T = o.step_T
          /\ impulse_T = o.impulse_T
          /\ bw3db = o.bw3db
          /\ info = o.info
          /\ err = o.err

Init == Constructed /\ series = NoSeries /\ markers = <<>> /\ report = NoReport

(***************************************************************************)
(* Event handlers.                                                         *)
(***************************************************************************)
on_mode_change(mode) ==
    /\ input_mode' = mode
    /\ Rebuild(current_plant, current_controller, mode, TRUE)
    /\ UNCHANGED << tk_build, current_plant, current_controller, edits >>

on_plant_change(plant) ==
    /\ current_plant' = plant
    /\ Rebuild(plant, current_controller, input_mode, FALSE)
    /\ edits' = 0
    /\ UNCHANGED << tk_build, current_controller, input_mode >>

on_controller_change(ctrl) ==
    /\ current_controller' = ctrl
    /\ Rebuild(current_plant, ctrl, input_mode, FALSE)
    /\ edits' = 0
    /\ UNCHANGED << tk_build, current_plant, input_mode >>

reset_callback ==
    /\ Rebuild(current_plant, current_controller, input_mode, FALSE)
    /\ edits' = 0
    /\ UNCHANGED << tk_build, current_plant, current_controller, input_mode >>

\* the user moves plant slider idx to value; the Scale's command runs
on_plant_param_change(idx, value) ==
    /\ input_mode = "slider"
    /\ edits < MaxEdits
    /\ idx \in 1..Len(plant_controls)
    /\ value \in SliderGrid(tk_build, all_params(current_plant)[idx])
    /\ plant_controls' = [plant_controls EXCEPT ![idx].value = value]
    /\ edits' = edits + 1
    /\ Replot(current_plant, current_controller, plant_controls', controller_controls)
    /\ UNCHANGED << tk_build, current_plant, current_controller, input_mode,
                    controller_controls >>

on_controller_param_change(idx, value) ==
    /\ input_mode = "slider"
    /\ edits < MaxEdits
    /\ idx \in 1..Len(controller_controls)
    /\ value \in SliderGrid(tk_build, controller_params(current_controller)[idx])
    /\ controller_controls' = [controller_controls EXCEPT ![idx].value = value]
    /\ edits' = edits + 1
    /\ Replot(current_plant, current_controller, plant_controls, controller_controls')
    /\ UNCHANGED << tk_build, current_plant, current_controller, input_mode,
                    plant_controls >>

\* the user leaves plant entry idx holding text; float() rejects BadText and
\* the handler then does nothing
on_plant_text_change(idx, text) ==
    /\ input_mode = "text"
    /\ edits < MaxEdits
    /\ idx \in 1..Len(plant_controls)
    /\ text \in TextInputs
    /\ plant_controls' = [plant_controls EXCEPT ![idx].value = text]
    /\ edits' = edits + 1
    /\ IF text = BadText
       THEN UNCHANGED << outs, freq, report >>
       ELSE Replot(current_plant, current_controller, plant_controls', controller_controls)
    /\ UNCHANGED << tk_build, current_plant, current_controller, input_mode,
                    controller_controls >>

on_controller_text_change(idx, text) ==
    /\ input_mode = "text"
    /\ edits < MaxEdits
    /\ idx \in 1..Len(controller_controls)
    /\ text \in TextInputs
    /\ controller_controls' = [controller_controls EXCEPT ![idx].value = text]
    /\ edits' = edits + 1
    /\ IF text = BadText
       THEN UNCHANGED << outs, freq, report >>
       ELSE Replot(current_plant, current_controller, plant_controls, controller_controls')
    /\ UNCHANGED << tk_build, current_plant, current_controller, input_mode,
                    plant_controls >>

Next ==
    \/ \E mode \in Modes : on_mode_change(mode)
    \/ \E plant \in PlantKinds : on_plant_change(plant)
    \/ \E ctrl \in ControllerKinds : on_controller_change(ctrl)
    \/ reset_callback
    \/ \E idx \in 1..4, value \in TextGrid : on_plant_param_change(idx, value)
    \/ \E idx \in 1..3, value \in TextGrid : on_controller_param_change(idx, value)
    \/ \E idx \in 1..4, text \in TextInputs : on_plant_text_change(idx, text)
    \/ \E idx \in 1..3, text \in TextInputs : on_controller_text_change(idx, text)

Spec == Init /\ [][Next]_vars

(***************************************************************************)
(* The engine on its own: the entries hold a parameter vector that differs *)
(* from the defaults in at most MaxChanged places, and update_plots runs   *)
(* on it once (no Scale exists in text mode, whatever the Tk build).       *)
(***************************************************************************)
Entries(values) == [i \in 1..Len(values) |-> [widget |-> "entry", value |-> values[i]]]
Inits(params) == [i \in 1..Len(params) |-> params[i].init]

RECURSIVE Ball(_, _)
\* the vectors that differ from v in at most r places, over the typed values
Ball(v, r) ==
    IF r = 0 THEN {v}
    ELSE { [u EXCEPT ![i] = a] : u \in Ball(v, r - 1), i \in 1..Len(v), a \in TextGrid }

EngineInputs(plant, ctrl) ==
    Ball(Inits(all_params(plant)) \o Inits(controller_params(ctrl)), MaxChanged)

InitEngine ==
    /\ tk_build = "zero"
    /\ current_plant \in PlantKinds
    /\ current_controller \in ControllerKinds
    /\ input_mode = "text"
    /\ \E v \in EngineInputs(current_plant, current_controller) :
          /\ plant_controls = Entries(SubSeq(v, 1, Len(all_params(current_plant))))
          /\ controller_controls =
                Entries(SubSeq(v, Len(all_params(current_plant)) + 1, Len(v)))
    /\ edits = 0
    /\ plant_values = <<>>
    /\ controller_values = <<>>
    /\ plant_tf = Blank.plant_tf
    /\ closed_loop = Blank.closed_loop
    /\ num_cl = <<>>
    /\ den_cl = <<>>
    /\ poles_cl = <<>>
    /\ T_settle = Zero
    /\ t = NoSamples
    /\ step_T = NoSamples
    /\ impulse_T = NoSamples
    /\ bw3db = "undetermined"
    /\ info = NoInfo
    /\ err = "pending"
    /\ series = NoSeries
    /\ markers = <<>>
    /\ report = NoReport

\* update_plots() on the entries as they are
run_update_plots ==
    /\ err = "pending"
    /\ Replot(current_plant, current_controller, plant_controls, controller_controls)
    /\ UNCHANGED ui

NextEngine == run_update_plots

EngineSpec == InitEngine /\ [][NextEngine]_vars

(***************************************************************************)
(* The engine with the export: update_plots runs on a parameter vector,    *)
(* then export_callback writes its report of the same vector.              *)
(***************************************************************************)
\* at most MaxExportChanged controls do not hold their declared init value
InitExport ==
    /\ InitEngine
    /\ Cardinality({ i \in 1..Len(plant_controls) :
                        plant_controls[i].value # all_params(current_plant)[i].init })
          + Cardinality({ i \in 1..Len(controller_controls) :
                            controller_controls[i].value
                               # controller_params(current_controller)[i].init })
          <= MaxExportChanged

NextExport == run_update_plots \/ export_callback

ExportSpec == InitExport /\ [][NextExport]_vars

(***************************************************************************)
(* The marker search on its own: a sampled series is drawn, then the       *)
(* -3 dB marker or the three phase markers are placed on it.               *)
(***************************************************************************)
\* samples per series
MaxSamples == 3
GridW == [k \in 1..MaxSamples |-> 2^(k - 1)]
MagLevels == {-6, -4, -3, -1, 0}
PhaseLevels == {0, -45, -60, -90, -135, -180}
PhaseTargets == << -45, -90, -135 >>
Db3Target == -3

SampledSeries ==
    { [kind |-> "mag", w |-> GridW, x |-> x] : x \in [1..MaxSamples -> MagLevels] }
    \cup
    { [kind |-> "phase", w |-> GridW, x |-> x] : x \in [1..MaxSamples -> PhaseLevels] }

InitFreq == Constructed /\ series \in SampledSeries /\ markers = <<>> /\ report = NoReport

mark_3db ==
    /\ series.kind = "mag"
    /\ markers = <<>>
    /\ markers' = << LocateCrossover(series.w, series.x, Db3Target) >>
    /\ UNCHANGED << ui, outs, series, report >>

mark_phase ==
    /\ series.kind = "phase"
    /\ markers = <<>>
    /\ markers' = [i \in 1..3 |-> LocateCrossover(series.w, series.x, PhaseTargets[i])]
    /\ UNCHANGED << ui, outs, series, report >>

NextFreq == mark_3db \/ mark_phase

FreqSpec == InitFreq /\ [][NextFreq]_vars

(***************************************************************************)
(* Properties.                                                             *)
(***************************************************************************)
\* update_plots has run on the parameters the state shows
Ran == err \in {"none", "improper", "max_of_empty"}

\* the coefficient of s^k in the polynomial p (highest power first)
Deg(p, k) == IF k >= 0 /\ k < Len(p) THEN p[Len(p) - k] ELSE Zero

\* no coefficient of a reaches 1e-12 in magnitude
Negligible(a) == ~ \E i \in 1..Len(a) : QLeq(E12, QAbs(a[i]))

\* C1: the analysed closed loop is what compute_closed_loop returned, except
\* that a numerator whose coefficients are all below 1e-12 in magnitude is
\* replaced by [1e-12] and such a denominator by [1, 1]; neither analysed
\* sequence is all-zero.
C1_DegeneracyFloor ==
    Ran =>
      /\ num_cl = (IF Negligible(closed_loop.num) THEN << Dec(1, -12) >>
                   ELSE closed_loop.num)
      /\ den_cl = (IF Negligible(closed_loop.den) THEN << One, One >>
                   ELSE closed_loop.den)
      /\ \E i \in 1..Len(num_cl) : num_cl[i] # Zero
      /\ \E i \in 1..Len(den_cl) : den_cl[i] # Zero

\* an all-zero closed-loop denominator was replaced by [1, 1]
C1_Witness ==
    /\ Ran
    /\ \A i \in 1..Len(closed_loop.den) : closed_loop.den[i] = Zero
    /\ Len(closed_loop.den) = 3
    /\ den_cl = << One, One >>
    /\ num_cl = closed_loop.num

\* C2: with the PID controller, num_cl = conv([Kd, Kp, Ki], num_p) and
\* den_cl = conv([1, 0], den_p) + num_cl, the sum taken degree by degree
\* (the shorter operand padded with zeros on the left).
C2_PIDClosure ==
    (Ran /\ current_controller = 1) =>
      /\ Len(closed_loop.num) = Len(plant_tf.num) + 2
      /\ \A k \in 0..(Len(closed_loop.num) - 1) :
            Deg(closed_loop.num, k) =
               QAdd(QAdd(QMul(controller_values[3], Deg(plant_tf.num, k - 2)),
                         QMul(controller_values[1], Deg(plant_tf.num, k - 1))),
                    QMul(controller_values[2], Deg(plant_tf.num, k)))
      /\ Len(closed_loop.den) = Max2(Len(plant_tf.den) + 1, Len(closed_loop.num))
      /\ \A k \in 0..(Len(closed_loop.den) - 1) :
            Deg(closed_loop.den, k) =
               QAdd(Deg(plant_tf.den, k - 1), Deg(closed_loop.num, k))

\* the plant 1 / (s + 1) under Kp = 1, Ki = 0, Kd = 0
C2_Witness ==
    /\ Ran /\ current_controller = 1
    /\ plant_tf.num = << One >> /\ plant_tf.den = << One, One >>
    /\ controller_values = << One, Zero, Zero >>
    /\ closed_loop.den = << One, Two, Zero >>

\* C3: StateFeedback on the StateSpace plant gives
\* den_cl = [1, -trace(A_cl), det(A_cl)] for A_cl = [[A11, A12], [A21-K1, A22-K2]]
\* and num_cl = [0, 0, A12], the last entry 1e-6 when |A12| < 1e-12.
C3_StateFeedbackExact ==
    (Ran /\ current_plant = 4 /\ current_controller = 2) =>
      LET A11 == plant_values[1]
          A12 == plant_values[2]
          A21c == QSub(plant_values[3], controller_values[1])
          A22c == QSub(plant_values[4], controller_values[2])
      IN /\ closed_loop.den = << One, QNeg(QAdd(A11, A22c)),
                                 QSub(QMul(A11, A22c), QMul(A12, A21c)) >>
         /\ closed_loop.num = << Zero, Zero,
                                 IF QLess(QAbs(A12), Dec(1, -12)) THEN Dec(1, -6)
                                 ELSE A12 >>

\* A = [[0, 1], [-25, -7]] under K = [1, 1]
C3_Witness ==
    /\ Ran /\ current_plant = 4 /\ current_controller = 2
    /\ plant_values = << Zero, One, Dec(-25, 0), Dec(-7, 0) >>
    /\ controller_values = << One, One >>
    /\ closed_loop.den = << One, Dec(8, 0), Dec(26, 0) >>
    /\ closed_loop.num = << Zero, Zero, One >>

\* C4: StateFeedback on a plant other than StateSpace closes the loop with
\* the scalar gain K1 + K2: num_cl = (K1 + K2) * num_p and
\* den_cl = den_p + num_cl degree by degree, a function of the sum alone.
C4_StateFeedbackApprox ==
    (Ran /\ current_controller = 2 /\ current_plant \in 0..3) =>
      /\ Len(closed_loop.num) = Len(plant_tf.num)
      /\ \A k \in 0..(Len(closed_loop.num) - 1) :
            Deg(closed_loop.num, k) =
               QMul(QAdd(controller_values[1], controller_values[2]),
                    Deg(plant_tf.num, k))
      /\ Len(closed_loop.den) = Max2(Len(plant_tf.den), Len(closed_loop.num))
      /\ \A k \in 0..(Len(closed_loop.den) - 1) :
            Deg(closed_loop.den, k) =
               QAdd(Deg(plant_tf.den, k), Deg(closed_loop.num, k))

\* two different gains on a second-order plant
C4_Witness ==
    /\ Ran /\ current_controller = 2 /\ current_plant \in 1..3
    /\ controller_values[1] # controller_values[2]
    /\ controller_values[2] # Zero
    /\ closed_loop.num # plant_tf.num

\* controller value vectors of every length the program builds
GainVectors ==
    {<<>>} \cup { << a, b >> : a, b \in TextGrid }
           \cup { << a, b, c >> : a, b, c \in TextGrid }

\* C5: without a controller compute_closed_loop returns the plant's
\* numerator and denominator as they are, whatever the controller values.
C5_NoControllerIdentity ==
    (Ran /\ current_controller = 0) =>
      /\ closed_loop.num = plant_tf.num
      /\ closed_loop.den = plant_tf.den
      /\ \A cv \in GainVectors :
            compute_closed_loop(0, current_plant, plant_values, plant_tf.num,
                                plant_tf.den, cv) = CL(plant_tf.num, plant_tf.den)

\* a second-order plant analysed in open loop
C5_Witness ==
    /\ Ran /\ current_controller = 0 /\ current_plant = 2
    /\ Len(closed_loop.den) = 3
    /\ closed_loop.den = plant_tf.den
    /\ plant_values # Inits(all_params(2))

\* C6: is_stable holds exactly when no closed-loop pole has a real part of
\* -1e-6 or more.
C6_StabilityPredicate ==
    err = "none" =>
      /\ info.poles = poles_cl
      /\ info.is_stable <=>
            ~ \E i \in 1..Len(poles_cl) : QLeq(Dec(-1, -6), poles_cl[i].re)

\* a pole at exactly -1e-6 is reported unstable
C6_Witness ==
    /\ err = "none"
    /\ Len(poles_cl) = 1
    /\ poles_cl[1].re = Dec(-1, -6)
    /\ ~ info.is_stable

\* C7: T_settle is max(4/|m|, 1) for a negative maximum real part m of the
\* poles and 10 otherwise; step and impulse responses are evaluated on the
\* same 1000 evenly spaced points from 0 to 4 * T_settle.
C7_SimulationHorizon ==
    /\ err \in {"none", "improper"} =>
          \A i \in 1..Len(poles_cl) :
             (\A j \in 1..Len(poles_cl) : QLeq(poles_cl[j].re, poles_cl[i].re)) =>
                T_settle = (IF QLess(poles_cl[i].re, Zero)
                            THEN (IF QLess(One, QDiv(Dec(4, 0), QAbs(poles_cl[i].re)))
                                  THEN QDiv(Dec(4, 0), QAbs(poles_cl[i].re))
                                  ELSE One)
                            ELSE Dec(1, 1))
    /\ err = "none" =>
          /\ step_T = impulse_T
          /\ step_T.num = 1000
          /\ step_T.start = Zero
          /\ step_T.stop = QMul(Dec(4, 0), T_settle)

\* a slow stable pole stretches the horizon beyond one second
C7_Witness ==
    /\ err = "none"
    /\ QLess(One, T_settle) /\ T_settle # Dec(1, 1)
    /\ step_T.stop = QMul(Dec(4, 0), T_settle)
    /\ impulse_T = step_T

\* the first index of the series at or below the target, 0 when there is none
FirstAtOrBelow(x, target) ==
    IF \E k \in 1..Len(x) : x[k] <= target
    THEN CHOOSE k \in 1..Len(x) :
            x[k] <= target /\ \A j \in 1..(k - 1) : x[j] > target
    ELSE 0

\* w[i-1] + (target - x[i-1]) * (w[i] - w[i-1]) / (x[i] - x[i-1]), written over
\* the positive denominator x[i-1] - x[i]
Interpolated(w, x, target, i) ==
    Canon(w[i - 1] * (x[i - 1] - x[i]) + (x[i - 1] - target) * (w[i] - w[i - 1]),
          x[i - 1] - x[i], 0)

\* the target of the j-th marker of the series
TargetOf(j) == IF series.kind = "mag" THEN -3 ELSE << -45, -90, -135 >>[j]

\* C8: a crossing is reported exactly when the first sample at or below the
\* target exists and is not the first of the series, and the reported
\* frequency is then the linear interpolation between that sample and the
\* one before it.
C8_CrossoverInterpolated ==
    \A j \in 1..Len(markers) :
       /\ markers[j].found <=> FirstAtOrBelow(series.x, TargetOf(j)) > 1
       /\ markers[j].found =>
             markers[j].omega =
                Interpolated(series.w, series.x, TargetOf(j),
                             FirstAtOrBelow(series.x, TargetOf(j)))

\* C9: for the TimeConstant plant without a controller, 0.01 < 1/tau < 100
\* and a gain K of at least one half, the magnitude has a -3 dB crossing to
\* report, so its first sample is not already at or below -3 dB.
C9_FirstOrderBandwidth ==
    ( /\ err = "none" /\ current_plant = 0 /\ current_controller = 0
      /\ QLess(Dec(1, -2), plant_values[1]) /\ QLess(plant_values[1], Dec(1, 2))
      /\ QLeq(Dec(5, -1), plant_values[2]) )
    => bw3db # "first"

\* C10: cl_wn is the modulus of the first pole; cl_zeta is
\* max(0, -Re(p0)/|p0|) when |Im(p0)| > 1e-6 and 1 otherwise.
C10_DominantPoleMetrics ==
    err = "none" =>
      /\ info.cl_wn[1] >= 0
      /\ RtMul(info.cl_wn, info.cl_wn) =
            RtOfQ(QAdd(QMul(poles_cl[1].re, poles_cl[1].re), poles_cl[1].im2))
      /\ IF QLess(Dec(1, -12), poles_cl[1].im2)
         THEN IF QLess(poles_cl[1].re, Zero)
              THEN /\ info.cl_zeta[1] > 0
                   /\ RtMul(info.cl_zeta, info.cl_wn) = RtOfQ(QNeg(poles_cl[1].re))
              ELSE info.cl_zeta[1] = 0
         ELSE info.cl_zeta = RtOfQ(One)

\* wn = 5 and zeta = 0.7 in open loop: the first pole of the complex pair
\* gives cl_wn = 5 and cl_zeta = 0.7
C10_Witness ==
    /\ err = "none" /\ current_plant = 1 /\ current_controller = 0
    /\ Len(poles_cl) = 2
    /\ QLess(Dec(1, -12), poles_cl[1].im2)
    /\ info.cl_wn = RtOfQ(Dec(5, 0))
    /\ info.cl_zeta = RtOfQ(Dec(7, -1))

\* settling * (cl_zeta * cl_wn) = 4
SettlingIsFourOver(settling, cl_zeta, cl_wn) ==
    RtMul(settling, RtMul(cl_zeta, cl_wn)) = RtOfQ(Dec(4, 0))

\* C11 (as amended): if 0 < cl_zeta < 1 an overshoot is defined, with
\* settling = 4/(cl_zeta*cl_wn) when cl_zeta*cl_wn > 0; if cl_zeta >= 1 and
\* cl_wn > 0 then settling = 4/(cl_zeta*cl_wn) and overshoot = 0; in every
\* other case, cl_zeta >= 1 with cl_wn = 0 included, settling stays undefined
\* and no overshoot/settling figures are output.
C11_OvershootSettling ==
    err = "none" =>
      IF info.cl_zeta[1] > 0 /\ QLess(info.cl_zeta[2], One)
      THEN /\ info.overshoot = "exp"
           /\ IF info.cl_wn[1] > 0
              THEN /\ ~ info.settling_nan
                   /\ SettlingIsFourOver(info.settling, info.cl_zeta, info.cl_wn)
              ELSE info.settling_nan
      ELSE IF info.cl_zeta[1] > 0 /\ info.cl_wn[1] > 0
      THEN /\ info.overshoot = "zero"
           /\ ~ info.settling_nan
           /\ SettlingIsFourOver(info.settling, info.cl_zeta, info.cl_wn)
      ELSE info.settling_nan /\ info.overshoot = "zero"

\* a first pole at the origin: cl_zeta = 1, cl_wn = 0 and no figures
C11_Witness ==
    /\ err = "none"
    /\ info.cl_zeta = RtOfQ(One)
    /\ info.cl_wn[1] = 0
    /\ info.settling_nan

\* C11 (as stated): whenever cl_zeta >= 1, settling = 4/(cl_zeta*cl_wn) is
\* output with overshoot = 0.
C11_AsStated ==
    (err = "none" /\ info.cl_zeta[1] > 0 /\ QLeq(One, info.cl_zeta[2])) =>
      /\ info.overshoot = "zero"
      /\ ~ info.settling_nan
      /\ SettlingIsFourOver(info.settling, info.cl_zeta, info.cl_wn)

\* C12: the TimeConstant plant replaces tau by max(tau, 1e-6) and returns
\* num = [K], den = [tau, 1], wn = 1/tau, zeta = 1 and the DC gain K; the
\* leading denominator coefficient is at least 1e-6 whatever tau was given.
C12_TimeConstantPlant ==
    (Ran /\ current_plant = 0) =>
      LET tau == IF QLess(plant_values[1], Dec(1, -6)) THEN Dec(1, -6)
                 ELSE plant_values[1]
      IN /\ plant_tf.num = << plant_values[2] >>
         /\ plant_tf.den = << tau, One >>
         /\ plant_tf.wn[1] > 0
         /\ RtMul(plant_tf.wn, RtOfQ(tau)) = RtOfQ(One)
         /\ plant_tf.zeta = RtOfQ(One)
         /\ plant_tf.dc_gain = plant_values[2]
         /\ QLeq(Dec(1, -6), plant_tf.den[1])

\* a negative tau is raised to 1e-6
C12_Witness ==
    /\ Ran /\ current_plant = 0
    /\ QLess(plant_values[1], Zero)
    /\ plant_tf.den = << Dec(1, -6), One >>
    /\ plant_tf.wn = RtOfQ(Dec(1, 6))

\* C13: the NaturalFrequency plant returns num = [K*wn^2] and
\* den = [1, 2*zeta*wn, wn^2], and passes wn, zeta and K through unchanged.
C13_NaturalFrequencyPlant ==
    (Ran /\ current_plant = 1) =>
      /\ plant_tf.num = << QMul(QMul(plant_values[3], plant_values[1]), plant_values[1]) >>
      /\ plant_tf.den = << One,
                           QMul(Dec(2, 0), QMul(plant_values[2], plant_values[1])),
                           QMul(plant_values[1], plant_values[1]) >>
      /\ plant_tf.wn = RtOfQ(plant_values[1])
      /\ plant_tf.zeta = RtOfQ(plant_values[2])
      /\ plant_tf.dc_gain = plant_values[3]

\* wn = 5, zeta = 0.7, K = 1 gives den = [1, 7, 25] and num = [25]
C13_Witness ==
    /\ Ran /\ current_plant = 1
    /\ plant_values = << Dec(5, 0), Dec(7, -1), One >>
    /\ plant_tf.den = << One, Dec(7, 0), Dec(25, 0) >>
    /\ plant_tf.num = << Dec(25, 0) >>

\* max(|x|, 1e-6)
AwayFromZero(x) == IF QLess(QAbs(x), Dec(1, -6)) THEN Dec(1, -6) ELSE QAbs(x)

\* C14: the ODECoeffs plant replaces a2 by max(|a2|, 1e-6) and a0 by
\* max(|a0|, 1e-6) and returns num = [max(b/a2, 1e-12)] and
\* den = [1, a1/a2, a0/a2], with wn = sqrt(a0/a2) and
\* zeta = a1/(2*sqrt(a0*a2)); the numerator is at least 1e-12 and the
\* constant term of the denominator is positive.
C14_ODECoeffsPlant ==
    (Ran /\ current_plant = 2) =>
      LET a2 == AwayFromZero(plant_values[1])
          a1 == plant_values[2]
          a0 == AwayFromZero(plant_values[3])
          b  == plant_values[4]
      IN /\ plant_tf.num = << IF QLess(QDiv(b, a2), Dec(1, -12)) THEN Dec(1, -12)
                              ELSE QDiv(b, a2) >>
         /\ plant_tf.den = << One, QDiv(a1, a2), QDiv(a0, a2) >>
         /\ plant_tf.wn[1] = 1 /\ plant_tf.wn[2] = QDiv(a0, a2)
         /\ plant_tf.zeta[1] = Sgn(a1[1])
         /\ QMul(plant_tf.zeta[2], QMul(Dec(4, 0), QMul(a0, a2))) = QMul(a1, a1)
         /\ QLeq(Dec(1, -12), plant_tf.num[1])
         /\ QLess(Zero, plant_tf.den[3])

\* a negative b is floored to 1e-12
C14_Witness ==
    /\ Ran /\ current_plant = 2
    /\ QLess(plant_values[4], Zero)
    /\ plant_tf.num = << Dec(1, -12) >>
    /\ plant_tf.den = << One, Dec(7, 0), Dec(25, 0) >>

\* C15: the LaplaceTF plant on (b0, a2, a1, a0) returns exactly what the
\* ODECoeffs plant returns on (a2, a1, a0, b0), and the other way round.
C15_LaplaceIsODEReordered ==
    /\ (Ran /\ current_plant = 3) =>
          plant_tf = convert_to_tf(<< plant_values[2], plant_values[3],
                                      plant_values[4], plant_values[1] >>, 2)
    /\ (Ran /\ current_plant = 2) =>
          plant_tf = convert_to_tf(<< plant_values[4], plant_values[1],
                                      plant_values[2], plant_values[3] >>, 3)

\* the LaplaceTF plant with b0 = 0.5 over s^2 + 7 s + 25
C15_Witness ==
    /\ Ran /\ current_plant = 3
    /\ plant_values = << Dec(5, -1), One, Dec(7, 0), Dec(25, 0) >>
    /\ plant_tf.num = << Dec(5, -1) >>
    /\ plant_tf.den = << One, Dec(7, 0), Dec(25, 0) >>
    /\ plant_tf.dc_gain = Dec(2, -2)

\* C16: the StateSpace plant returns num = [A12] and den = [1, -tr, det] for
\* tr = A11 + A22 and det = A11*A22 - A12*A21; wn = sqrt(det) and
\* zeta = -tr/(2*wn) when det > 0, wn = zeta = 1 otherwise; K = A12/det when
\* |det| > 1e-12 and K = 1 otherwise.
C16_StateSpacePlant ==
    (Ran /\ current_plant = 4) =>
      LET tr  == QAdd(plant_values[1], plant_values[4])
          det == QSub(QMul(plant_values[1], plant_values[4]),
                      QMul(plant_values[2], plant_values[3]))
      IN /\ plant_tf.num = << plant_values[2] >>
         /\ plant_tf.den = << One, QNeg(tr), det >>
         /\ IF QLess(Zero, det)
            THEN /\ plant_tf.wn[1] = 1 /\ plant_tf.wn[2] = det
                 /\ plant_tf.zeta[1] = - Sgn(tr[1])
                 /\ QMul(plant_tf.zeta[2], QMul(Dec(4, 0), det)) = QMul(tr, tr)
            ELSE plant_tf.wn = RtOfQ(One) /\ plant_tf.zeta = RtOfQ(One)
         /\ IF QLess(Dec(1, -12), QAbs(det))
            THEN QMul(plant_tf.dc_gain, det) = plant_values[2]
            ELSE plant_tf.dc_gain = One

\* A21 = 0 makes det = 0: wn, zeta and K fall back to 1
C16_Witness ==
    /\ Ran /\ current_plant = 4
    /\ plant_values = << Zero, One, Zero, Dec(-7, 0) >>
    /\ plant_tf.den = << One, Dec(7, 0), Zero >>
    /\ plant_tf.wn = RtOfQ(One) /\ plant_tf.zeta = RtOfQ(One)
    /\ plant_tf.dc_gain = One

\* the a0 and the b (or b0) supplied to the ODECoeffs and LaplaceTF plants
SuppliedA0 == IF current_plant = 2 THEN plant_values[3] ELSE plant_values[4]
SuppliedB  == IF current_plant = 2 THEN plant_values[4] ELSE plant_values[1]

\* C17: for the ODECoeffs and LaplaceTF plants the DC gain is 1 when the
\* supplied a0 has |a0| <= 1e-12, and b/a0 otherwise.
C17_DCGainGuard ==
    (Ran /\ current_plant \in {2, 3}) =>
      IF QLeq(QAbs(SuppliedA0), Dec(1, -12))
      THEN plant_tf.dc_gain = One
      ELSE QMul(plant_tf.dc_gain, SuppliedA0) = SuppliedB

\* the supplied a0 = 0 with the reported gain b / 1e-6
C17_ZeroA0 ==
    /\ Ran /\ current_plant \in {2, 3}
    /\ SuppliedA0 = Zero
    /\ plant_tf.dc_gain = QMul(SuppliedB, Dec(1, 6))
    /\ plant_tf.dc_gain # One

\* C18: every run of the engine yields its values: the analysed denominator
\* has at least one root, so the maximum real part of the poles and the
\* first pole are defined and no step up to the metrics raises.
C18_NoOperationRaises ==
    Ran => (err # "max_of_empty" /\ Len(poles_cl) >= 1)

\* a denominator [0, 0, c] with c # 0 passes the floor and has no root
C18_NoRoot ==
    /\ err = "max_of_empty"
    /\ Len(den_cl) = 3
    /\ den_cl[1] = Zero /\ den_cl[2] = Zero /\ den_cl[3] # Zero
    /\ den_cl = closed_loop.den
    /\ poles_cl = <<>>

\* what a first run of the engine on the analysed parameters may give
FreshRun ==
    Convert(Blank, current_plant, current_controller, plant_values, controller_values)

C20_FirstOrderOpenLoop ==
    (Ran /\ current_plant = 0 /\ current_controller = 0) =>
      LET tau == IF QLess(plant_values[1], Dec(1, -6)) THEN Dec(1, -6)
                 ELSE plant_values[1]
      IN /\ err = "none"
         /\ Len(poles_cl) = 1
         /\ poles_cl[1].im2 = Zero
         /\ QMul(poles_cl[1].re, tau) = Dec(-1, 0)
         /\ QLess(tau, Dec(1, 6)) => info.is_stable

\* tau = 0.5 with the gain K = -1: the pole -2, stable
C20_Witness ==
    /\ err = "none" /\ current_plant = 0 /\ current_controller = 0
    /\ plant_values = << Dec(5, -1), Dec(-1, 0) >>
    /\ poles_cl = << PoleQ(Dec(-2, 0)) >>
    /\ info.is_stable

\* the NaturalFrequency plant in open loop with 0 < zeta < 1 and wn > 0
Underdamped ==
    /\ err = "none" /\ current_plant = 1 /\ current_controller = 0
    /\ QLess(Zero, plant_values[2]) /\ QLess(plant_values[2], One)
    /\ QLess(Zero, plant_values[1])

\* the two poles are -zeta*wn +- j*wn*sqrt(1 - zeta^2), the system is stable
\* when zeta*wn > 1e-6, and cl_wn = wn, whichever pole comes first
PolesOfUnderdamped ==
    /\ Len(poles_cl) = 2
    /\ \A i \in 1..2 :
          /\ poles_cl[i].re = QNeg(QMul(plant_values[2], plant_values[1]))
          /\ QLess(poles_cl[i].re, Zero)
    /\ QLess(Dec(1, -6), QMul(plant_values[2], plant_values[1])) => info.is_stable
    /\ info.cl_wn = RtOfQ(plant_values[1])

\* (wn * sqrt(1 - zeta^2))^2, the square of the poles' imaginary part
ImagSquared ==
    QMul(QMul(plant_values[1], plant_values[1]),
         QSub(One, QMul(plant_values[2], plant_values[2])))

\* C21 (as amended): for the NaturalFrequency plant without a controller,
\* 0 < zeta < 1 and wn > 0, both poles have the negative real part -zeta*wn
\* (stable when zeta*wn > 1e-6) and cl_wn = wn whichever pole comes first;
\* cl_zeta = zeta when the imaginary part wn*sqrt(1 - zeta^2) exceeds 1e-6,
\* and cl_zeta = 1 when it does not.
C21_UnderdampedRecovered ==
    Underdamped =>
      /\ PolesOfUnderdamped
      /\ info.cl_zeta = (IF QLess(Dec(1, -12), ImagSquared)
                         THEN RtOfQ(plant_values[2]) ELSE RtOfQ(One))

\* wn = 1e-13 and zeta = 0.5: the imaginary part is below 1e-6 and the
\* damping ratio shown is 1
C21_Witness ==
    /\ Underdamped
    /\ plant_values[1] = Dec(1, -13) /\ plant_values[2] = Dec(5, -1)
    /\ info.cl_wn = RtOfQ(Dec(1, -13))
    /\ info.cl_zeta = RtOfQ(One)

\* C21 (as stated): under the same conditions cl_zeta = zeta always.
C21_AsStated ==
    Underdamped =>
      /\ PolesOfUnderdamped
      /\ info.cl_zeta = RtOfQ(plant_values[2])

\* the declared 'init' values are what the controls hold and what the run of
\* update_plots in the handler read
AtDefaults ==
    /\ get_plant_values(plant_controls, current_plant)
          = [i \in 1..Len(all_params(current_plant)) |-> all_params(current_plant)[i].init]
    /\ get_controller_values(controller_controls, current_controller)
          = [i \in 1..Len(controller_params(current_controller)) |->
                controller_params(current_controller)[i].init]
    /\ plant_values = get_plant_values(plant_controls, current_plant)
    /\ controller_values = get_controller_values(controller_controls, current_controller)

\* C22: reset_callback sets every plant and controller parameter of the
\* selected kinds back to its declared 'init' value and leaves the plant
\* kind, the controller kind and the input mode unchanged.
C22_ResetRestoresDefaults ==
    [][ reset_callback =>
           /\ AtDefaults'
           /\ UNCHANGED << current_plant, current_controller, input_mode >> ]_vars

\* the state a reset leaves on a Tk build that rounds a Scale's value from
\* from_: the a2 slider of the LaplaceTF plant (from_ = 0.01, resolution 0.1)
\* reads 1.01, not its declared 1
C22_SliderOffDefault ==
    /\ tk_build = "from" /\ input_mode = "slider" /\ current_plant = 3
    /\ edits = 0
    /\ plant_values[2] = Dec(101, -2)
    /\ all_params(3)[2].init = One

\* a run with the PID controller and Ki = 0
PIDWithoutIntegral ==
    Ran /\ current_controller = 1 /\ controller_values[2] = Zero

\* some closed-loop pole is at the origin
PoleAtOrigin ==
    \E i \in 1..Len(poles_cl) : poles_cl[i].re = Zero /\ poles_cl[i].im2 = Zero

\* C23 (as amended): with the PID controller the constant term of the
\* closed-loop denominator is Ki times the constant term of the plant
\* numerator; with Ki = 0 the analysed den_cl has a root at s = 0 among the
\* poles and is_stable is false, unless every coefficient of the denominator
\* is below 1e-12 in magnitude: then the degeneracy floor makes den_cl [1, 1],
\* the only pole is -1 and the run stops at the improper transfer function
\* before a verdict is shown.
C23_PIDPoleAtOrigin ==
    /\ (Ran /\ current_controller = 1) =>
          Deg(closed_loop.den, 0) = QMul(controller_values[2], Deg(plant_tf.num, 0))
    /\ PIDWithoutIntegral =>
          IF Negligible(closed_loop.den)
          THEN /\ den_cl = << One, One >>
               /\ poles_cl = << PoleQ(Dec(-1, 0)) >>
               /\ err = "improper"
          ELSE /\ Deg(den_cl, 0) = Zero
               /\ PoleAtOrigin
               /\ err = "none" => ~ info.is_stable

\* the TimeConstant plant with tau = 1, K = -1 under Kp = 1, Ki = 0, Kd = 1:
\* the closed-loop denominator [0, 0, 0] is analysed as [1, 1]
C23_Witness ==
    /\ PIDWithoutIntegral
    /\ current_plant = 0
    /\ plant_values = << One, Dec(-1, 0) >>
    /\ controller_values = << One, Zero, One >>
    /\ closed_loop.den = << Zero, Zero, Zero >>
    /\ poles_cl = << PoleQ(Dec(-1, 0)) >>

\* C23 (as stated): with Ki = 0 den_cl always has a root at s = 0 among the
\* poles, and is_stable is false.
C23_AsStated ==
    PIDWithoutIntegral =>
       /\ Deg(closed_loop.den, 0) = Zero
       /\ Deg(den_cl, 0) = Zero
       /\ PoleAtOrigin
       /\ err = "none" => ~ info.is_stable

\* C24: for the NaturalFrequency, ODECoeffs, LaplaceTF and StateSpace plants
\* the closed-loop denominator has the leading coefficient 1 under every
\* controller, so the floor leaves it as it is; a denominator with every
\* coefficient below 1e-12 occurs only for the TimeConstant plant under PID.
C24_MonicDenominator ==
    Ran =>
      /\ current_plant \in 1..4 =>
            /\ closed_loop.den[1] = Dec(1, 0)
            /\ den_cl = closed_loop.den
      /\ Negligible(closed_loop.den) =>
            current_plant = 0 /\ current_controller = 1

\* wn = 1e-13 under the default PID gains: every coefficient but the leading
\* 1 is below 1e-12 and the denominator is analysed as it is
C24_Witness ==
    /\ Ran /\ current_plant = 1 /\ current_controller = 1
    /\ plant_values[1] = Dec(1, -13)
    /\ Len(closed_loop.den) = 4
    /\ closed_loop.den[1] = Dec(1, 0)
    /\ Negligible(Tail(closed_loop.den))
    /\ den_cl = closed_loop.den

\* T_settle is the pole-derived value of the rightmost pole i
PoleDerived(i) ==
    /\ QLess(poles_cl[i].re, Zero)
    /\ T_settle = QMax(QDiv(Dec(4, 0), QAbs(poles_cl[i].re)), Dec(1, 0))

\* C25: T_settle >= 1 whenever a horizon was chosen; a system classified
\* stable has the pole-derived horizon max(4/|max_real|, 1), at most 4e6;
\* when the fallback T_settle = 10 is used (the largest real part is not
\* negative) the system is classified unstable.
C25_HorizonAndVerdict ==
    /\ err \in {"none", "improper"} => QLeq(Dec(1, 0), T_settle)
    /\ (err = "none" /\ info.is_stable) =>
          /\ \E i \in 1..Len(poles_cl) :
                /\ \A j \in 1..Len(poles_cl) : QLeq(poles_cl[j].re, poles_cl[i].re)
                /\ PoleDerived(i)
          /\ QLeq(T_settle, Dec(4, 6))
    /\ (err = "none" /\ \E i \in 1..Len(poles_cl) : QLeq(Zero, poles_cl[i].re)) =>
          /\ T_settle = Dec(1, 1)
          /\ ~ info.is_stable

\* a closed loop with a pole at the origin: the fallback horizon of 10 s and
\* the verdict unstable
C25_Witness ==
    /\ err = "none"
    /\ \E i \in 1..Len(poles_cl) : poles_cl[i].re = Zero
    /\ \A i \in 1..Len(poles_cl) : QLeq(poles_cl[i].re, Zero)
    /\ T_settle = Dec(1, 1)
    /\ ~ info.is_stable

\* C26: the damping ratio shown lies in [0, 1]; it is 1 exactly when
\* |Im(p0)| <= 1e-6, whatever the sign of Re(p0), and otherwise
\* 0 <= cl_zeta < 1; a NaturalFrequency plant entered with zeta > 1 is shown
\* in open loop with cl_zeta = 1.
C26_DampingRange ==
    err = "none" =>
      /\ info.cl_zeta[1] >= 0
      /\ QLeq(info.cl_zeta[2], Dec(1, 0))
      /\ info.cl_zeta[1] = 0 <=> info.cl_zeta[2] = Zero
      /\ (info.cl_zeta[1] = 1 /\ info.cl_zeta[2] = Dec(1, 0))
            <=> QLeq(poles_cl[1].im2, Dec(1, -12))
      /\ (current_plant = 1 /\ current_controller = 0
            /\ QLess(Dec(1, 0), plant_values[2])) =>
               /\ info.cl_zeta[1] = 1 /\ info.cl_zeta[2] = Dec(1, 0)
               /\ QLess(info.cl_zeta[2], QMul(plant_values[2], plant_values[2]))

\* wn = 5 with zeta = 1.25 entered: the poles are -2.5 and -10 and the
\* damping ratio shown is 1
C26_Witness ==
    /\ err = "none" /\ current_plant = 1 /\ current_controller = 0
    /\ plant_values[1] = Dec(5, 0) /\ plant_values[2] = Dec(125, -2)
    /\ plant_tf.zeta = <<1, Dec(15625, -4)>>
    /\ poles_cl[1].im2 = Zero
    /\ poles_cl[1].re \in {Dec(-25, -1), Dec(-1, 1)}
    /\ info.cl_zeta = <<1, Dec(1, 0)>>

\* the first pole is not the origin
FirstPoleNonZero == poles_cl[1].re # Zero \/ poles_cl[1].im2 # Zero

\* C27: a settling time is shown exactly when the first pole p0 is nonzero
\* and either |Im(p0)| <= 1e-6 or Re(p0) < 0, whatever is_stable says: every
\* stable system gets one, and a real positive first pole gets
\* settling = 4/|p0| with overshoot 0 next to the verdict unstable.
C27_SettlingEmitted ==
    err = "none" =>
      /\ (~ info.settling_nan) <=>
            /\ FirstPoleNonZero
            /\ \/ QLeq(poles_cl[1].im2, Dec(1, -12))
               \/ QLess(poles_cl[1].re, Zero)
      /\ info.is_stable => ~ info.settling_nan
      /\ (poles_cl[1].im2 = Zero /\ QLess(Zero, poles_cl[1].re)) =>
            /\ ~ info.settling_nan
            /\ info.settling =
                  <<1, QDiv(Dec(16, 0), QMul(poles_cl[1].re, poles_cl[1].re))>>
            /\ info.overshoot = "zero"
            /\ ~ info.is_stable

\* the only pole is +1: Ts = 4 s and OS = 0 are shown for an unstable system
C27_Witness ==
    /\ err = "none"
    /\ poles_cl = << PoleQ(Dec(1, 0)) >>
    /\ ~ info.is_stable
    /\ ~ info.settling_nan
    /\ info.settling = <<1, Dec(16, 0)>>
    /\ info.overshoot = "zero"

\* number of values the unpacking in convert_to_tf expects per plant kind and
\* the unpacking in compute_closed_loop per controller kind
PlantArity == << 2, 3, 4, 4, 4 >>
ControllerArity == << 0, 3, 2 >>

\* C28: in every state the UI reaches, get_plant_values returns as many
\* values as the current plant kind has parameters (2, 3, 4, 4, 4) and
\* get_controller_values as many as the controller kind has (0, 3, 2); so
\* did they in the last run of update_plots.
C28_ValueArity ==
    /\ Len(get_plant_values(plant_controls, current_plant))
          = PlantArity[current_plant + 1]
    /\ Len(get_controller_values(controller_controls, current_controller))
          = ControllerArity[current_controller + 1]
    /\ Len(plant_values) = PlantArity[current_plant + 1]
    /\ Len(controller_values) = ControllerArity[current_controller + 1]

\* the StateSpace plant under state feedback in text mode, after an edit:
\* four plant values and two gains
C28_Witness ==
    /\ current_plant = 4 /\ current_controller = 2
    /\ input_mode = "text" /\ edits = 1
    /\ Len(plant_values) = 4 /\ Len(controller_values) = 2
    /\ Len(plant_controls) = 4 /\ Len(controller_controls) = 2
    /\ plant_values # [i \in 1..4 |-> params_method5[i].init]

\* a report of the parameters the display was last drawn for
ReportOfDisplayed ==
    /\ Ran
    /\ report.status \in {"written", "index_of_empty", "zero_denominator"}
    /\ report.plant = current_plant /\ report.controller = current_controller
    /\ report.plant_values = plant_values
    /\ report.controller_values = controller_values

\* C29: export_callback analyses the closed loop update_plots analyses, the
\* one after the degeneracy floor: the same num_cl and den_cl, poles and
\* zeros that are their roots, and the same verdict and -3 dB finding where
\* both were produced.
C29_ExportAnalysesDisplayed ==
    ReportOfDisplayed =>
      /\ report.num_cl = num_cl
      /\ report.den_cl = den_cl
      /\ report.status # "zero_denominator"
      /\ report.status = "written" =>
            /\ report.poles_cl \in roots(den_cl)
            /\ report.zeros_cl \in roots(num_cl)
      /\ (report.status = "written" /\ err = "none") =>
            /\ report.is_stable = info.is_stable
            /\ report.bw3db = bw3db

\* the all-zero closed-loop denominator of the TimeConstant plant under PID:
\* the display analyses [1, 1], the export hands [0, 0, 0] to
\* signal.TransferFunction and ends in its ValueError
C29_UnflooredExport ==
    /\ ReportOfDisplayed
    /\ current_plant = 0 /\ current_controller = 1
    /\ den_cl = << One, One >>
    /\ report.den_cl = << Zero, Zero, Zero >>
    /\ report.status = "zero_denominator"

\* C30: on a phase series the first index at or below -45 is no greater than
\* the first at or below -90, which is no greater than the first at or below
\* -135 (where they exist); the crossover frequencies reported are
\* non-decreasing in the order -45, -90, -135 and each lies between the grid
\* frequencies w[i-1] and w[i] of its own index.
C30_PhaseCrossoversOrdered ==
    (series.kind = "phase" /\ markers # <<>>) =>
      /\ \A j, k \in 1..3 :
            ( /\ j < k
              /\ FirstAtOrBelow(series.x, << -45, -90, -135 >>[j]) > 0
              /\ FirstAtOrBelow(series.x, << -45, -90, -135 >>[k]) > 0 )
            => FirstAtOrBelow(series.x, << -45, -90, -135 >>[j])
                  <= FirstAtOrBelow(series.x, << -45, -90, -135 >>[k])
      /\ \A j, k \in 1..3 :
            (j < k /\ markers[j].found /\ markers[k].found)
            => QLeq(markers[j].omega, markers[k].omega)
      /\ \A j \in 1..3 :
            markers[j].found =>
               /\ markers[j].idx = FirstAtOrBelow(series.x, << -45, -90, -135 >>[j])
               /\ QLeq(Q(series.w[markers[j].idx - 1]), markers[j].omega)
               /\ QLeq(markers[j].omega, Q(series.w[markers[j].idx]))

\* the phase falls from 0 to exactly -90 in one step: the -45 crossover is
\* reported at the second grid frequency and the -90 crossover at the first
C30_OutOfOrder ==
    /\ series.kind = "phase" /\ markers # <<>>
    /\ series.x[1] = 0 /\ series.x[2] = -90
    /\ markers[1].found /\ markers[2].found
    /\ markers[1].idx = 2 /\ markers[2].idx = 2
    /\ markers[1].omega = Q(series.w[2])
    /\ markers[2].omega = Q(series.w[1])
    /\ QLess(markers[2].omega, markers[1].omega)

====
